---------------------------- MODULE Spec2Model ----------------------------
(***************************************************************************)
(* Model of the Supabase -> S3 -> OpenSearch synchronisation job:          *)
(*   01_download.js   downloadToS3  (Staging Writer)                       *)
(*   02_sync.js       dynamicMicroBatch, syncFile, syncAll (Bulk Indexer)  *)
(*   03_test.js       testSync      (Reconciler; second half of            *)
(*                                   src/01_download.js)                   *)
(*   04_mark_synced.js markAsSynced (Commit Marker)                        *)
(*   05_clean_s3.js   cleanS3       (Janitor; second half of               *)
(*                                   src/06_orchestrate.js)                *)
(*   06_orchestrate.js orchestrate, main (Orchestrator)                    *)
(*                                                                         *)
(* The three collaborators are state: the source table (srcIds, srcSynced),*)
(* the staging bucket (bucket) and the destination index (index).          *)
(* A collaborator call that the code guards with try/catch or with an      *)
(* error value may fail; each failure is an input of the action that makes *)
(* the call, and the number of transient failures of one behaviour is      *)
(* capped by MaxFaults.  A bulk request that throws is taken not to have   *)
(* indexed anything.                                                       *)
(***************************************************************************)
EXTENDS Integers, Sequences, FiniteSets, TLC

(***************************************************************************)
(* Program constants.                                                      *)
(***************************************************************************)
RECORDS_PER_FILE == 100

INITIAL_BATCH_SIZE == 25

MAX_PAYLOAD_MB == 2

MAX_RETRIES == 3

batchSize == 1000

\* ListObjectsV2 returns at most 1000 keys per request.
ListMaxKeys == 1000

\* markAsSynced(workflowId = null), syncAll(workflowId = null): "no tag".
NoWorkflow == 0

\* Byte length of JSON.stringify({index: {_index: INDEX_NAME, _id: ""}}).
ActionBaseBytes == 62

(***************************************************************************)
(* Bounds of the model.                                                    *)
(***************************************************************************)
\* Transient collaborator failures injected in one behaviour.
MaxFaults == 2

\* Unsynced records of the small scenarios, and the records beyond one full
\* page in the multi-blob scenario.
ExtraRecords == 3

\* Records already synced and indexed by earlier runs.
PreIndexed == 2

\* Serialized size of one record in the orchestration scenarios.
RecordBytes == 300

\* Calls of markAsSynced in the Commit Marker scenarios.
MaxCalls == 2

(***************************************************************************)
(* Generic helpers.                                                        *)
(***************************************************************************)
Range(s) == {s[i] : i \in DOMAIN s}

Min(a, b) == IF a <= b THEN a ELSE b

\* The least power of two, from p on, above every element of S.
RECURSIVE Above(_, _)
Above(S, p) == IF \A x \in S : x < p THEN p ELSE Above(S, 2 * p)

\* The elements of S within lo..hi in ascending order.
RECURSIVE SortRange(_, _, _)
SortRange(S, lo, hi) ==
    IF S = {} THEN <<>>
    ELSE IF lo = hi THEN <<lo>>
    ELSE SortRange({x \in S : x <= (lo + hi) \div 2}, lo, (lo + hi) \div 2)
         \o SortRange({x \in S : x > (lo + hi) \div 2}, (lo + hi) \div 2 + 1, hi)

\* The elements of a finite set of naturals in ascending order.
SortedSeq(S) == SortRange(S, 0, Above(S, 1) - 1)

\* The first n elements of s (Array.prototype.slice(0, n)).
Take(s, n) == SubSeq(s, 1, Min(n, Len(s)))

\* Number of decimal digits of a non-negative integer (id.toString()).
RECURSIVE Digits(_)
Digits(n) == IF n < 10 THEN 1 ELSE 1 + Digits(n \div 10)

(***************************************************************************)
(* Object keys.  A key is kept as its parts: the namespace ("log/" or      *)
(* none), the fixed name, the workflow tag (NoWorkflow: untagged), the     *)
(* timestamp and the zero-padded sequence number.  Date.now().toString(36) *)
(* and toISOString() are injective and, at fixed length, order-preserving, *)
(* so both are kept as the millisecond value they print.                   *)
(***************************************************************************)
BlobKey(n) ==
    [ns |-> "", name |-> "unsynced_", wf |-> NoWorkflow, ts |-> 0, seq |-> n]

ManifestKey(t) ==
    [ns |-> "log/", name |-> "download_summary_", wf |-> NoWorkflow, ts |-> t, seq |-> 0]

CheckpointKey(w, t) ==
    [ns |-> "log/", name |-> "sync_log_ids_", wf |-> w, ts |-> t, seq |-> 0]

RunLogKey(t) ==
    [ns |-> "log/", name |-> "sync_log_", wf |-> NoWorkflow, ts |-> t, seq |-> 0]

CleanupKey(t) ==
    [ns |-> "log/", name |-> "cleanup_log_", wf |-> NoWorkflow, ts |-> t, seq |-> 0]

\* String.prototype.includes on a key, for the two needles cleanS3 uses.
KeyIncludes(k, needle) ==
    CASE needle = "summary" -> k.name = "download_summary_"
      [] needle = "log/"    -> k.ns = "log/"
      [] OTHER              -> FALSE

\* S3 prefix match.  A prefix is a key with ts = 0 and seq = 0; a prefix
\* without workflow tag ends after the name.
HasPrefix(k, p) ==
    /\ k.ns = p.ns
    /\ k.name = p.name
    /\ (p.wf = NoWorkflow \/ k.wf = p.wf)

\* The names in UTF-8 binary order of the keys that carry them:
\* "log/cleanup_log_" < "log/download_summary_" < "log/sync_log_<digit>"
\* < "log/sync_log_ids_" < "unsynced_".
KeyNames ==
    <<"cleanup_log_", "download_summary_", "sync_log_", "sync_log_ids_", "unsynced_">>

\* A finite set of keys in UTF-8 binary order, the order in which S3 lists
\* them: by name, then by workflow tag (an untagged checkpoint log, whose
\* timestamp starts with a digit, precedes every tagged one, whose base-36
\* workflow id starts with a letter), then by timestamp, then by sequence
\* number.  The three numbers of a key are ordered as one number.
KeySeq(K) ==
    LET Sorted(T, Q) ==
            LET Code(k) == (k.wf * T + k.ts) * Q + k.seq
                Key(name, c) ==
                    [ns |-> IF name = "unsynced_" THEN "" ELSE "log/", name |-> name,
                     wf |-> c \div (T * Q), ts |-> (c \div Q) % T, seq |-> c % Q]
                Keys(name, codes) == [i \in DOMAIN codes |-> Key(name, codes[i])]
                Group(name) ==
                    Keys(name, SortedSeq({Code(k) : k \in {j \in K : j.name = name}}))
            IN  Group(KeyNames[1]) \o Group(KeyNames[2]) \o Group(KeyNames[3])
                \o Group(KeyNames[4]) \o Group(KeyNames[5])
    IN  Sorted(Above({k.ts : k \in K}, 1), Above({k.seq : k \in K}, 1))

\* One ListObjectsV2 request without continuation token: the first
\* ListMaxKeys keys under the prefix.
ListObjectsV2(bkt, p) ==
    Take(KeySeq({k \in DOMAIN bkt : HasPrefix(k, p)}), ListMaxKeys)

\* The do/while loop over continuation tokens: every key under the prefix.
ListAllPages(bkt, p) == KeySeq({k \in DOMAIN bkt : HasPrefix(k, p)})

\* PutObject / DeleteObject on the bucket (a function from keys to objects).
PutObject(bkt, k, body, now) ==
    [j \in DOMAIN bkt \cup {k} |->
        IF j = k THEN [lastModified |-> now, body |-> body] ELSE bkt[j]]

DeleteObject(bkt, k) == [j \in DOMAIN bkt \ {k} |-> bkt[j]]

\* Stable sort of a key sequence by ascending LastModified
\* (logFiles.sort((a, b) => new Date(a.LastModified) - new Date(b.LastModified))).
SortByModified(bkt, ks) ==
    SortSeq(ks, LAMBDA a, b : bkt[a].lastModified < bkt[b].lastModified)


(***************************************************************************)
(* Records.  A record is its identifier and the byte length of             *)
(* JSON.stringify(record); a staged blob holds one record per line, and    *)
(* JSON.stringify / JSON.parse of a line give the record back, so a blob   *)
(* body is the sequence of its records.                                    *)
(***************************************************************************)
RecordOf(id) == [id |-> id, bytes |-> RecordBytes]

IdsOf(records) == [i \in DOMAIN records |-> records[i].id]

\* A JavaScript Set fed a sequence: the distinct elements in insertion order.
Dedup(s) ==
    IF Cardinality(Range(s)) = Len(s) THEN s
    ELSE LET keep == {i \in DOMAIN s : \A j \in 1..(i - 1) : s[j] # s[i]}
             pos  == SortedSeq(keep)
         IN  [i \in DOMAIN pos |-> s[pos[i]]]

\* Faulty variant, for comparison: an array in place of the Set, keeping repeated identifiers.
AddAllKeepingRepeats(acc, ids) == acc \o ids

\* set.add(x) for every x of ids, on a Set whose insertion order is acc.
AddAll(acc, ids) ==
    LET seen == Range(acc)
    IN  acc \o SelectSeq(Dedup(ids), LAMBDA x : x \notin seen)

(***************************************************************************)
(* 01_download.js: downloadToS3.                                           *)
(* plan = [kind, at]: "query" makes the select of page `at` return an      *)
(* error, "upload" makes the PutObject of blob `at` throw, "manifest"      *)
(* makes the PutObject of the summary throw.                               *)
(***************************************************************************)
\* Faulty variant, for comparison: the select has no limit.
QueryPageWithoutLimit(unsynced, lastId) == SortedSeq({i \in unsynced : i > lastId})

\* select ... eq(opensearch_sync, false).order(id).gt(id, lastId).limit(100)
QueryPage(unsynced, lastId) ==
    Take(SortedSeq({i \in unsynced : i > lastId}), RECORDS_PER_FILE)

RECURSIVE DownloadLoop(_, _, _, _, _, _, _, _)
DownloadLoop(unsynced, bkt, now, plan, lastId, fileCount, totalRecords, s3Files) ==
    IF plan.kind = "query" /\ plan.at = fileCount + 1
    THEN [threw |-> TRUE, bucket |-> bkt, loop |-> [fileCount |-> fileCount,
          totalRecords |-> totalRecords, s3Files |-> s3Files, lastId |-> lastId]]
    ELSE LET page == QueryPage(unsynced, lastId)
         IN  IF Len(page) = 0
             THEN [threw |-> FALSE, bucket |-> bkt, loop |-> [fileCount |-> fileCount,
                   totalRecords |-> totalRecords, s3Files |-> s3Files, lastId |-> lastId]]
             ELSE IF plan.kind = "upload" /\ plan.at = fileCount + 1
             THEN [threw |-> TRUE, bucket |-> bkt, loop |-> [fileCount |-> fileCount,
                   totalRecords |-> totalRecords, s3Files |-> s3Files, lastId |-> lastId]]
             ELSE DownloadLoop(unsynced,
                      PutObject(bkt, BlobKey(fileCount + 1),
                                [i \in DOMAIN page |-> RecordOf(page[i])], now),
                      now, plan, page[Len(page)], fileCount + 1,
                      totalRecords + Len(page), Append(s3Files, BlobKey(fileCount + 1)))

UndefinedDownload ==
    [defined |-> FALSE, success |-> FALSE, totalRecords |-> 0, fileCount |-> 0, files |-> <<>>]

\* Faulty variant, for comparison: every blob counted as a full page.
SummaryOfFullPages(loop) ==
    [totalRecords |-> loop.fileCount * RECORDS_PER_FILE, s3Files |-> loop.s3Files,
     fileCount |-> loop.fileCount, recordsPerFile |-> RECORDS_PER_FILE]

\* The summary object of lines 90-98, from the counters the loop ended with.
SummaryOf(loop) ==
    [totalRecords |-> loop.totalRecords, s3Files |-> loop.s3Files,
     fileCount |-> loop.fileCount, recordsPerFile |-> RECORDS_PER_FILE]

downloadToS3(unsynced, bkt, now, plan) ==
    LET l == DownloadLoop(unsynced, bkt, now, plan, 0, 0, 0, <<>>)
        summary == SummaryOf(l.loop)
    IN  IF l.threw \/ plan.kind = "manifest"
        THEN [threw |-> TRUE, bucket |-> l.bucket, ret |-> UndefinedDownload]
        ELSE [threw |-> FALSE,
              bucket |-> PutObject(l.bucket, ManifestKey(now), summary, now),
              ret |-> [defined |-> TRUE, success |-> TRUE,
                       totalRecords |-> l.loop.totalRecords,
                       fileCount |-> l.loop.fileCount, files |-> l.loop.s3Files]]

(***************************************************************************)
(* 02_sync.js: dynamicMicroBatch.                                          *)
(* resp[w] = [first, retry] is what osClient.bulk answers to window w:     *)
(* each answer is [kind, failed], kind "throw" for a request-level         *)
(* failure, else a response whose items carry a non-2xx status exactly for *)
(* the records whose id is in failed (response.body.errors is true iff     *)
(* there is one).                                                          *)
(***************************************************************************)
RECURSIVE SumBytes(_, _)
SumBytes(batch, i) ==
    IF i > Len(batch) THEN 0
    ELSE ActionBaseBytes + Digits(batch[i].id) + batch[i].bytes + SumBytes(batch, i + 1)

\* Buffer.byteLength(JSON.stringify(testBody)): the brackets, the action and
\* the record of every entry, and the commas between the 2n elements.
PayloadBytes(batch) ==
    IF Len(batch) = 0 THEN 2
    ELSE 2 + SumBytes(batch, 1) + (2 * Len(batch) - 1)

\* The ceiling in bytes.
CeilingBytes == MAX_PAYLOAD_MB * 1024 * 1024

\* payloadSize / (1024 * 1024) <= MAX_PAYLOAD_MB
FitsCeiling(batch) == PayloadBytes(batch) <= MAX_PAYLOAD_MB * 1024 * 1024

RECURSIVE Probe(_, _, _, _)
Probe(records, testSize, maxTestSize, finalBatchSize) ==
    IF testSize > maxTestSize THEN finalBatchSize
    ELSE IF FitsCeiling(Take(records, testSize))
         THEN Probe(records, testSize + 1, maxTestSize, testSize)
         ELSE finalBatchSize

\* Faulty variant, for comparison: the initial size is used without probing.
FinalBatchSizeUnprobed(records) == Min(INITIAL_BATCH_SIZE, Len(records))

FinalBatchSize(records) ==
    Probe(records, 1, Min(INITIAL_BATCH_SIZE, Len(records)), 1)

\* Faulty variant, for comparison: a response that reports failed items counts as thrown.
ThrewOrReportedErrors(answer) == answer.kind = "throw" \/ answer.failed # {}

\* await osClient.bulk(...) throws: the catch block of the window is entered.
Threw(answer) == answer.kind = "throw"

\* Items of a non-throwing response with a 2xx status.
SuccessIds(batch, answer) == {batch[i].id : i \in DOMAIN batch} \ answer.failed

\* response.body.errors
HasErrors(batch, answer) == \E i \in DOMAIN batch : batch[i].id \in answer.failed

\* Faulty variant, for comparison: a response counts for the whole window.
CountOfWholeBatch(batch, answer) == Len(batch)

\* syncedCount += successItems.length, or += batch.length without errors.
CountOf(batch, answer) ==
    IF HasErrors(batch, answer)
    THEN Cardinality({i \in DOMAIN batch : batch[i].id \notin answer.failed})
    ELSE Len(batch)

RECURSIVE BatchLoop(_, _, _, _, _)
BatchLoop(records, size, resp, i, acc) ==
    IF i >= Len(records) THEN acc
    ELSE LET batch == SubSeq(records, i + 1, Min(i + size, Len(records)))
             w     == (i \div size) + 1
             first == resp[w].first
             retry == resp[w].retry
             req(n, answer) ==
                 [window |-> w, attempt |-> n, ids |-> IdsOf(batch),
                  bytes |-> PayloadBytes(batch), answer |-> answer.kind,
                  errors |-> answer.kind # "throw" /\ HasErrors(batch, answer),
                  failed |-> Range(IdsOf(batch)) \cap answer.failed]
         IN  IF ~Threw(first)
             THEN BatchLoop(records, size, resp, i + size,
                      [syncedCount |-> acc.syncedCount + CountOf(batch, first),
                       confirmed   |-> acc.confirmed \cup SuccessIds(batch, first),
                       requests    |-> Append(acc.requests, req(1, first)),
                       size        |-> size])
             ELSE IF ~Threw(retry)
             THEN BatchLoop(records, size, resp, i + size,
                      [syncedCount |-> acc.syncedCount + CountOf(batch, retry),
                       confirmed   |-> acc.confirmed \cup SuccessIds(batch, retry),
                       requests    |-> acc.requests \o <<req(1, first), req(2, retry)>>,
                       size        |-> size])
             ELSE BatchLoop(records, size, resp, i + size,
                      [syncedCount |-> acc.syncedCount,
                       confirmed   |-> acc.confirmed,
                       requests    |-> acc.requests \o <<req(1, first), req(2, retry)>>,
                       size        |-> size])

dynamicMicroBatch(records, resp) ==
    BatchLoop(records, FinalBatchSize(records), resp, 0,
              [syncedCount |-> 0, confirmed |-> {}, requests |-> <<>>,
               size |-> FinalBatchSize(records)])


(***************************************************************************)
(* 02_sync.js: syncFile and syncAll.                                       *)
(* env.read: GetObject, JSON.parse or ensureIndex throws; env.resp: the     *)
(* bulk answers (see dynamicMicroBatch); env.delete: the DeleteObject      *)
(* request throws.  attempt is the history of the call: the records        *)
(* confirmed by it, whether it asked for the deletion of the blob          *)
(* (requested), whether the blob is gone when it returns, the batch size   *)
(* it selected with the payload of that many records and of one more, and  *)
(* the bulk requests it issued.                                            *)
(***************************************************************************)
\* The first n records and one more: the next record of the blob, or a
\* record of the size of the last one when the blob holds no more.
OneMore(records, n) ==
    IF n < Len(records) THEN Take(records, n + 1)
    ELSE Append(records, [id |-> records[Len(records)].id + 1,
                          bytes |-> records[Len(records)].bytes])

\* Faulty variant, for comparison: the blob is deleted as soon as one record was indexed.
AllSyncedSome(syncedCount, records) == syncedCount > 0

\* if (syncedCount >= records.length): the blob is to be deleted.
AllSynced(syncedCount, records) == syncedCount >= Len(records)

syncFile(bkt, idx, key, env) ==
    IF env.read
    THEN [ret |-> [success |-> FALSE, syncedRecords |-> 0, syncedIds |-> <<>>],
          bucket |-> bkt, index |-> idx, confirmed |-> {},
          attempt |-> [key |-> key, read |-> FALSE, count |-> 0, len |-> 0,
                       ids |-> {}, confirmed |-> {}, requested |-> FALSE,
                       gone |-> FALSE, uniform |-> FALSE, size |-> 0,
                       sizeBytes |-> 0, nextBytes |-> 0, requests |-> <<>>]]
    ELSE LET Outcome(records, mb, delete) ==
                 [ret |-> IF delete /\ env.delete
                          THEN [success |-> FALSE, syncedRecords |-> 0,
                                syncedIds |-> <<>>]
                          ELSE [success |-> TRUE, syncedRecords |-> mb.syncedCount,
                                syncedIds |-> IdsOf(records)],
                  bucket |-> IF delete /\ ~env.delete THEN DeleteObject(bkt, key)
                             ELSE bkt,
                  index |-> idx \cup mb.confirmed,
                  confirmed |-> mb.confirmed,
                  attempt |-> [key |-> key, read |-> TRUE, count |-> mb.syncedCount,
                               len |-> Len(records), ids |-> Range(IdsOf(records)),
                               confirmed |-> mb.confirmed, requested |-> delete,
                               gone |-> delete /\ ~env.delete,
                               uniform |-> \A i \in DOMAIN records :
                                              records[i].bytes = records[1].bytes,
                               size |-> mb.size,
                               sizeBytes |-> PayloadBytes(Take(records, mb.size)),
                               nextBytes |-> PayloadBytes(OneMore(records, mb.size)),
                               requests |-> mb.requests]]
             Synced(records, mb) ==
                 Outcome(records, mb, AllSynced(mb.syncedCount, records))
         IN  Synced(bkt[key].body, dynamicMicroBatch(bkt[key].body, env.resp))

BlobPrefix == BlobKey(0)

RECURSIVE SyncLoop(_, _, _, _, _, _)
SyncLoop(files, i, bkt, idx, env, acc) ==
    IF i > Len(files)
    THEN [bucket |-> bkt, index |-> idx, acc |-> acc]
    ELSE LET Step(r) ==
             SyncLoop(files, i + 1, r.bucket, r.index, env,
                 [totalSynced  |-> IF r.ret.success
                                   THEN acc.totalSynced + r.ret.syncedRecords
                                   ELSE acc.totalSynced,
                  successCount |-> IF r.ret.success THEN acc.successCount + 1
                                   ELSE acc.successCount,
                  allSyncedIds |-> IF r.ret.success
                                   THEN AddAll(acc.allSyncedIds, r.ret.syncedIds)
                                   ELSE acc.allSyncedIds,
                  confirmed    |-> acc.confirmed \cup r.confirmed,
                  attempts     |-> Append(acc.attempts, r.attempt)])
         IN  Step(syncFile(bkt, idx, files[i], env.file[files[i]]))

UndefinedSync ==
    [defined |-> FALSE, success |-> FALSE, syncedFiles |-> 0, totalFiles |-> 0,
     totalRecords |-> 0, syncedIdsCount |-> 0]

FailedSync == [UndefinedSync EXCEPT !.defined = TRUE]

\* env.list: a ListObjectsV2 request throws; env.put: the PutObject of the
\* checkpoint log throws; env.file[k]: the env of syncFile for blob k.
syncAll(bkt, idx, workflowId, now, env) ==
    IF env.list
    THEN [ret |-> FailedSync, bucket |-> bkt, index |-> idx, confirmed |-> {},
          attempts |-> <<>>]
    ELSE LET syncLogContent(allSyncedIds) ==
                 [workflowId |-> workflowId, totalIds |-> Len(allSyncedIds),
                  syncedIds |-> allSyncedIds]
             Finish(files, l) ==
                 IF Len(files) = 0
                 THEN [ret |-> [defined |-> TRUE, success |-> TRUE, syncedFiles |-> 0,
                                totalFiles |-> 0, totalRecords |-> 0,
                                syncedIdsCount |-> 0],
                       bucket |-> bkt, index |-> idx, confirmed |-> {},
                       attempts |-> <<>>]
                 ELSE IF Len(l.acc.allSyncedIds) > 0 /\ env.put
                 THEN [ret |-> FailedSync, bucket |-> l.bucket, index |-> l.index,
                       confirmed |-> l.acc.confirmed, attempts |-> l.acc.attempts]
                 ELSE [ret |-> [defined |-> TRUE, success |-> TRUE,
                                syncedFiles |-> l.acc.successCount,
                                totalFiles |-> Len(files),
                                totalRecords |-> l.acc.totalSynced,
                                syncedIdsCount |-> Len(l.acc.allSyncedIds)],
                       bucket |-> IF Len(l.acc.allSyncedIds) > 0
                                  THEN PutObject(l.bucket, CheckpointKey(workflowId, now),
                                                 syncLogContent(l.acc.allSyncedIds), now)
                                  ELSE l.bucket,
                       index |-> l.index, confirmed |-> l.acc.confirmed,
                       attempts |-> l.acc.attempts]
             Run(files) ==
                 Finish(files,
                        SyncLoop(files, 1, bkt, idx, env,
                            [totalSynced |-> 0, successCount |-> 0,
                             allSyncedIds |-> <<>>, confirmed |-> {},
                             attempts |-> <<>>]))
         IN  Run(ListAllPages(bkt, BlobPrefix))


(***************************************************************************)
(* 03_test.js: testSync.  A field a result object does not carry is        *)
(* Absent.  count is osClient.count, dups the number of terms buckets with *)
(* doc_count > 1; env.kind "throw": a request to the index throws,         *)
(* "manifest": listing or reading the download summary throws.             *)
(***************************************************************************)
Absent == -1

UndefinedTest ==
    [defined |-> FALSE, success |-> FALSE, totalRecords |-> Absent, missing |-> Absent,
     extra |-> Absent, duplicates |-> Absent, error |-> "", criticalMissing |-> Absent]

TestResult(success, totalRecords, missing, extra, duplicates, error) ==
    [defined |-> TRUE, success |-> success, totalRecords |-> totalRecords,
     missing |-> missing, extra |-> extra, duplicates |-> duplicates,
     error |-> error, criticalMissing |-> Absent]

ManifestPrefix == ManifestKey(0)

\* The destination as testSync sees it.  index holds the _id of the
\* documents the bulk requests address; extra holds the identifiers for
\* which the index has a second document, under some other _id.
\* osClient.count: the number of documents.
CountDocs(idx, extra) == Cardinality(idx) + Cardinality(extra)

\* doc_count of the terms bucket of an identifier.
DocCount(extra, id) == IF id \in extra THEN 2 ELSE 1

\* Faulty variant, for comparison: two documents of one identifier are let pass.
IsDuplicateAboveTwo(docCount) == docCount > 2

\* filter(bucket => bucket.doc_count > 1)
IsDuplicate(docCount) == docCount > 1

\* terms: { field: 'id', size: 10 }: the buckets of greatest doc_count.
TermsSize == 10

\* duplicates.length: the buckets of the aggregation with doc_count > 1.
\* The aggregation orders its buckets by descending doc_count, so the
\* returned buckets hold a duplicate whenever there is one.
DuplicateBuckets(idx, extra) ==
    Min(TermsSize, Cardinality({id \in idx \cup extra : IsDuplicate(DocCount(extra, id))}))

\* Faulty variant, for comparison: without the expected count the test fails.
ManifestUnavailableFails(count) ==
    TestResult(FALSE, count, Absent, Absent, Absent, "")

\* return { success: true, totalRecords: osCount.body.count }: no download
\* summary is found, or listing or reading it throws.
ManifestUnavailable(count) == TestResult(TRUE, count, Absent, Absent, Absent, "")

\* summaryFiles.sort((a, b) => b.LastModified - a.LastModified)[0]: the
\* first listed among the objects of latest modification time.
LatestSummary(bkt, summaryFiles) ==
    LET Last(sorted) == sorted[Len(sorted)]
        First(top) ==
            CHOOSE i \in DOMAIN summaryFiles :
                /\ bkt[summaryFiles[i]].lastModified = top
                /\ \A j \in 1..(i - 1) : bkt[summaryFiles[j]].lastModified # top
    IN  summaryFiles[First(Last(SortedSeq({bkt[k].lastModified :
                                              k \in Range(summaryFiles)})))]

\* Faulty variant, for comparison: more documents than expected is a failure.
CompareCountsExact(expected, actual) ==
    LET missing == expected - actual
    IN  IF missing = 0 THEN TestResult(TRUE, actual, 0, Absent, Absent, "")
        ELSE IF missing > 0 THEN TestResult(FALSE, actual, missing, Absent, Absent, "")
        ELSE TestResult(FALSE, actual, Absent, -missing, Absent, "")

\* The comparison of the expected and the actual count.
CompareCounts(expected, actual) ==
    LET missing == expected - actual
    IN  IF missing = 0 THEN TestResult(TRUE, actual, 0, Absent, Absent, "")
        ELSE IF missing > 0 THEN TestResult(FALSE, actual, missing, Absent, Absent, "")
        ELSE IF expected = 0 THEN TestResult(TRUE, actual, 0, Absent, Absent, "")
        ELSE IF actual > expected THEN TestResult(TRUE, actual, 0, Absent, Absent, "")
        ELSE TestResult(FALSE, actual, Absent, -missing, Absent, "")

testSync(count, dups, bkt, env) ==
    IF env.kind = "throw"
    THEN TestResult(FALSE, Absent, Absent, Absent, Absent, "exception")
    ELSE IF dups > 0
    THEN TestResult(FALSE, Absent, Absent, Absent, dups, "")
    ELSE IF env.kind = "manifest"
    THEN ManifestUnavailable(count)
    ELSE LET summaryFiles == ListObjectsV2(bkt, ManifestPrefix)
         IN  IF Len(summaryFiles) = 0
             THEN ManifestUnavailable(count)
             ELSE CompareCounts(bkt[LatestSummary(bkt, summaryFiles)].body.totalRecords,
                                count)

(***************************************************************************)
(* 04_mark_synced.js: markAsSynced.                                        *)
(* env.list / env.read: the ListObjectsV2 request / a GetObject or the     *)
(* JSON.parse of a log throws; env.failed: the update batches (numbered    *)
(* from 1) for which the source returns an error.                          *)
(***************************************************************************)
NoLogsError == "No sync log files found"

UndefinedMark ==
    [defined |-> FALSE, success |-> FALSE, error |-> "", totalUpdated |-> 0,
     totalIds |-> 0]

\* allIdsSet after the loop over logFiles, as Array.from(allIdsSet): the
\* identifiers of logFiles[lo..hi] in order of first insertion.  Insertion
\* is associative, so the range is folded by halves.
RECURSIVE AllIds(_, _, _, _)
AllIds(bkt, logFiles, lo, hi) ==
    IF lo > hi THEN <<>>
    ELSE IF lo = hi THEN Dedup(bkt[logFiles[lo]].body.syncedIds)
    ELSE LET mid == (lo + hi) \div 2
         IN  AddAll(AllIds(bkt, logFiles, lo, mid), AllIds(bkt, logFiles, mid + 1, hi))

\* Faulty variant, for comparison: only full slices, the remainder of the identifiers is dropped.
UpdateBatchesFullOnly(syncedIds) ==
    [j \in 1..(Len(syncedIds) \div batchSize) |->
        SubSeq(syncedIds, (j - 1) * batchSize + 1, j * batchSize)]

\* The slices syncedIds.slice(i, i + batchSize) for i = 0, batchSize, ...
UpdateBatches(syncedIds) ==
    [j \in 1..((Len(syncedIds) + batchSize - 1) \div batchSize) |->
        SubSeq(syncedIds, (j - 1) * batchSize + 1, Min(j * batchSize, Len(syncedIds)))]

\* Faulty variant, for comparison: a failed batch is counted as updated.
RECURSIVE SumLenOfAll(_, _, _)
SumLenOfAll(batches, failed, j) ==
    IF j > Len(batches) THEN 0 ELSE Len(batches[j]) + SumLenOfAll(batches, failed, j + 1)

\* totalUpdated += batch.length for the batches whose update returned no error.
RECURSIVE SumLen(_, _, _)
SumLen(batches, failed, j) ==
    IF j > Len(batches) THEN 0
    ELSE (IF j \in failed THEN 0 ELSE Len(batches[j])) + SumLen(batches, failed, j + 1)

\* Faulty variant, for comparison: the prefix carries no workflow tag.
MarkPrefixUntagged(workflowId) == CheckpointKey(NoWorkflow, 0)

\* `log/sync_log_ids_${workflowId}_`, or 'log/sync_log_ids_' without workflow id
MarkPrefix(workflowId) == CheckpointKey(workflowId, 0)

\* Faulty variant, for comparison: the update flips the flag of the rows of a batch.
ApplyUpdatesFlipping(synced, batches, failed) ==
    LET Flip(updated) == (synced \ updated) \cup (updated \ synced)
    IN  Flip(UNION {Range(batches[j]) : j \in DOMAIN batches \ failed})

\* update({opensearch_sync: true}).in('id', batch) for every batch the source
\* accepts: the rows flagged synced afterwards.
ApplyUpdates(synced, batches, failed) ==
    synced \cup UNION {Range(batches[j]) : j \in DOMAIN batches \ failed}

markAsSynced(bkt, synced, workflowId, env) ==
    LET logFiles == SortByModified(bkt, ListObjectsV2(bkt, MarkPrefix(workflowId)))
        syncedIds == AllIds(bkt, logFiles, 1, Len(logFiles))
        batches == UpdateBatches(syncedIds)
    IN  IF env.list
        THEN [ret |-> [defined |-> TRUE, success |-> FALSE, error |-> "exception",
                       totalUpdated |-> 0, totalIds |-> 0],
              synced |-> synced, batches |-> <<>>, logFiles |-> <<>>]
        ELSE IF Len(logFiles) = 0
        THEN [ret |-> [defined |-> TRUE, success |-> FALSE, error |-> NoLogsError,
                       totalUpdated |-> 0, totalIds |-> 0],
              synced |-> synced, batches |-> <<>>, logFiles |-> <<>>]
        ELSE IF env.read
        THEN [ret |-> [defined |-> TRUE, success |-> FALSE, error |-> "exception",
                       totalUpdated |-> 0, totalIds |-> 0],
              synced |-> synced, batches |-> <<>>, logFiles |-> logFiles]
        ELSE [ret |-> [defined |-> TRUE, success |-> TRUE, error |-> "",
                       totalUpdated |-> SumLen(batches, env.failed, 1),
                       totalIds |-> Len(syncedIds)],
              synced |-> ApplyUpdates(synced, batches, env.failed),
              batches |-> batches, logFiles |-> logFiles]

(***************************************************************************)
(* 06_orchestrate.js: cleanS3.                                             *)
(* env.list: a ListObjectsV2 request throws; env.deleteAt = n > 0: the     *)
(* n-th DeleteObject throws; env.put: the PutObject of the cleanup log     *)
(* throws.                                                                 *)
(***************************************************************************)
UndefinedClean ==
    [defined |-> FALSE, success |-> FALSE, totalFiles |-> 0, filesDeleted |-> 0,
     filesKept |-> 0]

FailedClean == [UndefinedClean EXCEPT !.defined = TRUE]

\* Faulty variant, for comparison: only the summaries are kept.
KeptSummaryOnly(k) == KeyIncludes(k, "summary")

Kept(k) == KeyIncludes(k, "summary") \/ KeyIncludes(k, "log/")

RECURSIVE DeleteLoop(_, _, _, _)
DeleteLoop(bkt, filesToDelete, i, deleteAt) ==
    IF i > Len(filesToDelete) THEN [threw |-> FALSE, bucket |-> bkt, deletedCount |-> i - 1]
    ELSE IF i = deleteAt THEN [threw |-> TRUE, bucket |-> bkt, deletedCount |-> i - 1]
    ELSE DeleteLoop(DeleteObject(bkt, filesToDelete[i]), filesToDelete, i + 1, deleteAt)

cleanS3(bkt, now, env) ==
    LET files == KeySeq(DOMAIN bkt)
        filesToKeep == SelectSeq(files, Kept)
        filesToDelete == SelectSeq(files, LAMBDA k : ~Kept(k))
        d == DeleteLoop(bkt, filesToDelete, 1, env.deleteAt)
        cleanupLog == [totalFiles |-> Len(files), filesDeleted |-> d.deletedCount,
                       filesKept |-> Len(filesToKeep), keptFiles |-> filesToKeep]
        sent == Take(filesToDelete, d.deletedCount + (IF d.threw THEN 1 ELSE 0))
    IN  IF env.list
        THEN [ret |-> FailedClean, bucket |-> bkt, deleted |-> <<>>,
              filesToDelete |-> <<>>, sent |-> <<>>]
        ELSE IF d.threw \/ env.put
        THEN [ret |-> FailedClean, bucket |-> d.bucket,
              deleted |-> Take(filesToDelete, d.deletedCount),
              filesToDelete |-> filesToDelete, sent |-> sent]
        ELSE [ret |-> [defined |-> TRUE, success |-> TRUE, totalFiles |-> Len(files),
                       filesDeleted |-> d.deletedCount, filesKept |-> Len(filesToKeep)],
              bucket |-> PutObject(d.bucket, CleanupKey(now), cleanupLog, now),
              deleted |-> Take(filesToDelete, d.deletedCount),
              filesToDelete |-> filesToDelete, sent |-> sent]

(***************************************************************************)
(* 06_orchestrate.js: saveTimestampLog.  fails: the PutObject throws.      *)
(***************************************************************************)
saveTimestampLog(bkt, summary, now, fails) ==
    IF fails THEN [threw |-> TRUE, bucket |-> bkt]
    ELSE [threw |-> FALSE, bucket |-> PutObject(bkt, RunLogKey(now), summary, now)]


(***************************************************************************)
(* State.                                                                  *)
(***************************************************************************)
VARIABLES
    srcIds,            \* identifiers of the rows of the source table
    srcSynced,         \* rows with opensearch_sync = true
    index,             \* _id of the documents of the destination index
    badIds,            \* records whose bulk item the index always rejects
    bucket,            \* the staging bucket: key -> [lastModified, body]
    clock,             \* Date.now(), new Date()
    faults,            \* transient failures still to inject
    pc,                \* position of orchestrate / main
    workflowId,        \* orchestrate: const workflowId
    downloadResult,    \* orchestrate: let downloadResult
    syncResult,        \* orchestrate: const syncResult
    testResult,        \* orchestrate: let testResult
    currentTestResult, \* orchestrate: let currentTestResult
    sameTest,          \* testResult and currentTestResult are one object
    retryCount,        \* orchestrate: let retryCount
    markResult,        \* orchestrate: let markResult (line 82)
    cleanResult,       \* orchestrate: const cleanResult
    result,            \* the value orchestrate returns
    exitCode,          \* process.exit(...) of main
    confirmed,         \* history: ids some sync attempt confirmed indexed
    attempts,          \* history: the syncFile calls of the run
    marked,            \* history: the update batches markAsSynced issued
    staged,            \* history: ids of the records downloadToS3 staged
    cleaned,           \* history: the blobs cleanS3 deleted, with their ids
    trace,             \* history: the stages executed, with their outcome
    markCalls,         \* history: the calls of the Commit Marker scenarios
    extraDocs,         \* identifiers with a second document in the index
    testCalls,         \* history: the calls of the Reconciler scenarios
    syncCalls,         \* history: the calls of syncAll
    cleanCalls,        \* history: the calls of cleanS3
    other              \* the locals of a second, suspended run of orchestrate

vars == <<srcIds, srcSynced, index, badIds, bucket, clock, faults, pc, workflowId,
          downloadResult, syncResult, testResult, currentTestResult, sameTest,
          retryCount, markResult, cleanResult, result, exitCode, confirmed,
          attempts, marked, staged, cleaned, trace, markCalls, extraDocs,
          testCalls, syncCalls, cleanCalls, other>>

srcVars == <<srcIds, srcSynced>>

localVars == <<downloadResult, syncResult, testResult, currentTestResult, sameTest,
               retryCount, markResult, cleanResult>>

historyVars == <<confirmed, attempts, marked, staged, cleaned>>

(***************************************************************************)
(* Values of orchestrate.                                                  *)
(***************************************************************************)
UndefinedResult == [defined |-> FALSE, success |-> FALSE, step |-> "", summary |-> FALSE]

\* Faulty variant, for comparison: the failure does not name its step.
FailedWithoutStep(step) ==
    [defined |-> TRUE, success |-> FALSE, step |-> "", summary |-> FALSE]

\* return { success: false, step, error }
Failed(step) == [defined |-> TRUE, success |-> FALSE, step |-> step, summary |-> FALSE]

\* return { success: true, summary, logFilename }
Succeeded == [defined |-> TRUE, success |-> TRUE, step |-> "", summary |-> TRUE]

\* An entry of the history of stages: the stage, whether it succeeded and
\* the error it reported.
\* A stage executed: by which run, and when.
Event(stage, ok, error) ==
    [stage |-> stage, ok |-> ok, error |-> error, wf |-> workflowId, at |-> clock]

\* The locals of a run of orchestrate that has not started.
NoOther ==
    [pc |-> "idle", workflowId |-> NoWorkflow, downloadResult |-> UndefinedDownload,
     syncResult |-> UndefinedSync, testResult |-> UndefinedTest,
     currentTestResult |-> UndefinedTest, sameTest |-> TRUE, retryCount |-> 0,
     markResult |-> UndefinedMark, cleanResult |-> UndefinedClean,
     result |-> UndefinedResult, exitCode |-> Absent]

\* The objects earlier runs left under log/: a download summary, a
\* checkpoint log of another workflow, a run summary and a cleanup record.
EarlierWorkflow == 1

EarlierLogs(pre) ==
    LET ids == [i \in 1..pre |-> i]
        b1 == PutObject(<<>>, ManifestKey(2),
                  [totalRecords |-> pre, s3Files |-> <<BlobKey(1)>>, fileCount |-> 1,
                   recordsPerFile |-> RECORDS_PER_FILE], 2)
        b2 == PutObject(b1, CheckpointKey(EarlierWorkflow, 3),
                  [workflowId |-> EarlierWorkflow, totalIds |-> pre, syncedIds |-> ids], 3)
        b3 == PutObject(b2, CleanupKey(4),
                  [totalFiles |-> 3, filesDeleted |-> 0, filesKept |-> 3,
                   keptFiles |-> <<>>], 4)
    IN  IF pre = 0 THEN <<>> ELSE b3

\* Date.now() at the start of this run.
StartTime == 10

UnsyncedCounts == {0, ExtraRecords, RECORDS_PER_FILE + ExtraRecords}

Init ==
    \E n \in UnsyncedCounts, pre \in {0, PreIndexed} :
      \E bad \in (IF n > 0 THEN {{}, {pre + 1}} ELSE {{}}) :
        /\ srcIds = 1..(pre + n)
        /\ srcSynced = 1..pre
        /\ index = 1..pre
        /\ badIds = bad
        /\ bucket = EarlierLogs(pre)
        /\ clock = StartTime + 1
        /\ faults = MaxFaults
        /\ pc = "download"
        /\ workflowId = StartTime
        /\ downloadResult = UndefinedDownload
        /\ syncResult = UndefinedSync
        /\ testResult = UndefinedTest
        /\ currentTestResult = UndefinedTest
        /\ sameTest = TRUE
        /\ retryCount = 0
        /\ markResult = UndefinedMark
        /\ cleanResult = UndefinedClean
        /\ result = UndefinedResult
        /\ exitCode = Absent
        /\ confirmed = {}
        /\ attempts = <<>>
        /\ marked = <<>>
        /\ staged = {}
        /\ cleaned = <<>>
        /\ trace = <<>>
        /\ markCalls = <<>>
        /\ extraDocs = {}
        /\ testCalls = <<>>
        /\ syncCalls = <<>>
        /\ cleanCalls = <<>>
        /\ other = NoOther


(***************************************************************************)
(* The environment of one stage: which collaborator calls fail.            *)
(***************************************************************************)
Cost(b) == IF b THEN 1 ELSE 0

NoPlan == [kind |-> "none", at |-> 0]

DownloadPlans(unsynced) ==
    LET pages == (Cardinality(unsynced) + RECORDS_PER_FILE - 1) \div RECORDS_PER_FILE
    IN  {NoPlan} \cup
        (IF faults = 0 THEN {}
         ELSE {[kind |-> "query", at |-> p] : p \in 1..(pages + 1)}
              \cup {[kind |-> "upload", at |-> p] : p \in 1..pages}
              \cup {[kind |-> "manifest", at |-> 0]})

\* What goes wrong while one blob is synced: nothing; the read; a partial
\* failure of a bulk response; a bulk request that throws, with a retry that
\* succeeds, partly fails or throws; the deletion of the blob.
FileKinds ==
    {"none", "read", "partial", "throwOk", "throwPartial", "throwThrow", "delete"}

\* The record a transient partial failure rejects: the second of the blob.
Victim(records) == {records[Min(2, Len(records))].id}

\* The bulk answers to the windows of one blob: the index rejects the
\* records of bad in every answer; a transient failure hits window 1.
RespOf(kind, victim, bad) ==
    [w \in 1..RECORDS_PER_FILE |->
       [first |-> [kind   |-> IF w = 1 /\ kind \in {"throwOk", "throwPartial", "throwThrow"}
                              THEN "throw" ELSE "ok",
                   failed |-> IF kind = "partial" THEN bad \cup victim ELSE bad],
        retry |-> [kind   |-> IF kind = "throwThrow" THEN "throw" ELSE "ok",
                   failed |-> IF kind = "throwPartial" THEN bad \cup victim ELSE bad]]]

StagedKeys == {k \in DOMAIN bucket : HasPrefix(k, BlobPrefix)}

SyncEnv(l, p, f) ==
    [list |-> l, put |-> p,
     file |-> [k \in DOMAIN f |->
                 [read |-> f[k] = "read", delete |-> f[k] = "delete",
                  resp |-> RespOf(f[k], Victim(bucket[k].body), badIds)]]]

SyncCost(l, p, f) == Cost(l) + Cost(p) + Cardinality({k \in DOMAIN f : f[k] # "none"})

\* The inputs of one syncAll call within the remaining fault budget.
SyncInputs ==
    {in \in [l : BOOLEAN, p : BOOLEAN, f : [StagedKeys -> FileKinds]] :
        /\ SyncCost(in.l, in.p, in.f) <= faults
        /\ in.l => (~in.p /\ \A k \in StagedKeys : in.f[k] = "none")}

TestKinds == IF faults = 0 THEN {"none"} ELSE {"none", "throw", "manifest"}

(***************************************************************************)
(* 06_orchestrate.js: orchestrate, one action per stage.                   *)
(***************************************************************************)
Download ==
    /\ pc = "download"
    /\ \E plan \in DownloadPlans(srcIds \ srcSynced) :
       \E r \in {downloadToS3(srcIds \ srcSynced, bucket, clock, plan)} :
             /\ bucket' = r.bucket
             /\ faults' = faults - Cost(plan.kind # "none")
             /\ staged' = UNION {Range(IdsOf(r.bucket[k].body)) :
                                   k \in {j \in DOMAIN r.bucket :
                                            HasPrefix(j, BlobPrefix)}}
             /\ trace' = Append(trace, Event("download", ~r.threw /\ r.ret.success, ""))
             /\ IF r.threw \/ ~r.ret.success
                THEN /\ result' = Failed("download")
                     /\ pc' = "exit"
                     /\ UNCHANGED downloadResult
                ELSE /\ downloadResult' = r.ret
                     /\ pc' = "sync"
                     /\ UNCHANGED result
    /\ clock' = clock + 1
    /\ UNCHANGED <<srcVars, index, badIds, workflowId, syncResult, testResult,
                   currentTestResult, sameTest, retryCount, markResult, cleanResult,
                   exitCode, confirmed, attempts, marked, cleaned, markCalls, extraDocs,
                   testCalls, syncCalls, cleanCalls, other>>

\* The checkpoint logs of a bucket, each with its modification time.
CheckpointLogs(bkt) ==
    [k \in {j \in DOMAIN bkt : j.name = "sync_log_ids_"} |-> bkt[k].lastModified]

\* What one call of syncAll did: its attempts are those at the positions
\* first..last of the history; the checkpoint logs before and after it; the
\* identifiers held by each checkpoint log it wrote.
SyncCallOf(bkt, in, r) ==
    [workflowId |-> workflowId, env |-> in, ret |-> r.ret,
     first |-> Len(attempts) + 1, last |-> Len(attempts) + Len(r.attempts),
     before |-> CheckpointLogs(bkt), after |-> CheckpointLogs(r.bucket),
     written |-> [k \in {j \in DOMAIN r.bucket :
                            /\ j.name = "sync_log_ids_"
                            /\ (j \notin DOMAIN bkt \/ r.bucket[j] # bkt[j])} |->
                    Range(r.bucket[k].body.syncedIds)]]

Sync ==
    /\ pc = "sync"
    /\ \E in \in SyncInputs :
       \E r \in {syncAll(bucket, index, workflowId, clock, SyncEnv(in.l, in.p, in.f))} :
             /\ bucket' = r.bucket
             /\ index' = r.index
             /\ faults' = faults - SyncCost(in.l, in.p, in.f)
             /\ syncResult' = r.ret
             /\ confirmed' = confirmed \cup r.confirmed
             /\ attempts' = attempts \o r.attempts
             /\ trace' = Append(trace, Event("sync", r.ret.success, ""))
             /\ syncCalls' = Append(syncCalls, SyncCallOf(bucket, in, r))
             /\ IF ~r.ret.success
                THEN result' = Failed("sync") /\ pc' = "exit"
                ELSE pc' = "test" /\ UNCHANGED result
    /\ clock' = clock + 1
    /\ UNCHANGED <<srcVars, badIds, workflowId, downloadResult, testResult,
                   currentTestResult, sameTest, retryCount, markResult, cleanResult,
                   exitCode, marked, staged, cleaned, markCalls, extraDocs, testCalls,
                   cleanCalls, other>>

\* What one call of testSync did: the download summary it took its expected
\* count from (none when it found or could read none), for which run.
TestCallOf(bkt, kind, t) ==
    [env |-> kind, ret |-> t, workflowId |-> workflowId,
     manifest |-> IF kind # "none" THEN {}
                  ELSE {LatestSummary(bkt, files) :
                          files \in {f \in {ListObjectsV2(bkt, ManifestPrefix)} :
                                       Len(f) > 0}}]

Test ==
    /\ pc = "test"
    /\ \E kind \in TestKinds :
       \E t \in {testSync(CountDocs(index, extraDocs), DuplicateBuckets(index, extraDocs),
                           bucket, [kind |-> kind])} :
             /\ currentTestResult' = t
             /\ testResult' = t
             /\ faults' = faults - Cost(kind # "none")
             /\ trace' = Append(trace, Event("test", t.success, ""))
             /\ testCalls' = Append(testCalls, TestCallOf(bucket, kind, t))
    /\ sameTest' = TRUE
    /\ retryCount' = 0
    /\ pc' = "loop"
    /\ clock' = clock + 1
    /\ UNCHANGED <<srcVars, index, badIds, bucket, workflowId, downloadResult,
                   syncResult, markResult, cleanResult, result, exitCode,
                   historyVars, markCalls, extraDocs, syncCalls, cleanCalls,
                   other>>

\* Faulty variant, for comparison: the loop ignores the verdict of the last test.
LoopConditionCountOnly == retryCount < MAX_RETRIES

\* Faulty variant, for comparison: the loop gives up one retry early.
LoopConditionOneRetryLess == ~currentTestResult.success /\ retryCount < MAX_RETRIES - 1

\* while (!currentTestResult.success && retryCount < MAX_RETRIES)
LoopCondition == ~currentTestResult.success /\ retryCount < MAX_RETRIES

\* Faulty variant, for comparison: the first failed resync ends the run.
RetriesExhaustedAtOnce(n) == n >= 1

\* if (retryCount >= MAX_RETRIES), line 101, after retryCount++ (line 94)
RetriesExhausted(n) == n >= MAX_RETRIES

Resync ==
    /\ pc = "loop"
    /\ LoopCondition
    /\ retryCount' = retryCount + 1
    /\ \E in \in SyncInputs :
       \E r \in {syncAll(bucket, index, workflowId, clock, SyncEnv(in.l, in.p, in.f))} :
             /\ bucket' = r.bucket
             /\ index' = r.index
             /\ faults' = faults - SyncCost(in.l, in.p, in.f)
             /\ confirmed' = confirmed \cup r.confirmed
             /\ attempts' = attempts \o r.attempts
             /\ trace' = Append(trace, Event("resync", r.ret.success, ""))
             /\ syncCalls' = Append(syncCalls, SyncCallOf(bucket, in, r))
             /\ IF ~r.ret.success
                THEN IF RetriesExhausted(retryCount + 1)
                     THEN result' = Failed("resync") /\ pc' = "exit"
                     ELSE pc' = "loop" /\ UNCHANGED result
                ELSE pc' = "retest" /\ UNCHANGED result
    /\ clock' = clock + 1
    /\ UNCHANGED <<srcVars, badIds, workflowId, downloadResult, syncResult, testResult,
                   currentTestResult, sameTest, markResult, cleanResult, exitCode,
                   marked, staged, cleaned, markCalls, extraDocs, testCalls,
                   cleanCalls, other>>

Retest ==
    /\ pc = "retest"
    /\ \E kind \in TestKinds :
       \E t \in {testSync(CountDocs(index, extraDocs), DuplicateBuckets(index, extraDocs),
                           bucket, [kind |-> kind])} :
             /\ currentTestResult' = t
             /\ faults' = faults - Cost(kind # "none")
             /\ trace' = Append(trace, Event("test", t.success, ""))
             /\ testCalls' = Append(testCalls, TestCallOf(bucket, kind, t))
    /\ sameTest' = FALSE
    /\ pc' = "loop"
    /\ clock' = clock + 1
    /\ UNCHANGED <<srcVars, index, badIds, bucket, workflowId, downloadResult,
                   syncResult, testResult, retryCount, markResult, cleanResult,
                   result, exitCode, historyVars, markCalls, extraDocs,
                   syncCalls, cleanCalls, other>>


\* currentTestResult.criticalMissing = currentTestResult.missing (line 123)
WithAlert(t) ==
    IF ~t.success /\ t.missing # Absent /\ t.missing > 0
    THEN [t EXCEPT !.criticalMissing = t.missing]
    ELSE t

\* The inputs of markAsSynced: at most one failure of the listing or of a
\* read, else a set of failing update batches, within the fault budget.
MarkInputs(maxBatches) ==
    {in \in [list : BOOLEAN, read : BOOLEAN, failed : SUBSET (1..maxBatches)] :
        /\ Cost(in.list) + Cost(in.read) + Cardinality(in.failed) <= faults
        /\ (in.list \/ in.read) => (in.failed = {} /\ ~(in.list /\ in.read))}

MarkCost(in) == Cost(in.list) + Cost(in.read) + Cardinality(in.failed)

\* Upper bound of the update batches of a call made now.
BatchesNow == (Cardinality(srcIds) + batchSize - 1) \div batchSize

NoDataMark ==
    [defined |-> TRUE, success |-> TRUE, error |-> "", totalUpdated |-> 0, totalIds |-> 0]

NoDataClean ==
    [defined |-> TRUE, success |-> TRUE, totalFiles |-> 0, filesDeleted |-> 0,
     filesKept |-> 0]

Summary(kind, t, m, c) ==
    [kind |-> kind, download |-> downloadResult, sync |-> syncResult, test |-> t,
     mark |-> m, clean |-> c, success |-> TRUE, duration |-> kind = "full"]

\* What one call of markAsSynced did, for which workflow.
MarkCallOf(w, in, m) ==
    [workflowId |-> w, env |-> in, ret |-> m.ret, batches |-> m.batches,
     logFiles |-> m.logFiles, before |-> srcSynced, after |-> m.synced]

\* Faulty variant, for comparison: the result of markAsSynced is not looked at.
MarkFailedNever(ret) == FALSE

\* if (!markResult.success), line 175
MarkFailed(ret) == ~ret.success

\* Lines 111-185: the alert on the last test result, then step 4.  The
\* markResult of line 135 is a constant of the inner try block: the variable
\* markResult of line 82 is not assigned.
Mark ==
    /\ pc = "loop"
    /\ ~LoopCondition
    /\ \E in \in MarkInputs(BatchesNow), saveFails \in BOOLEAN :
       \E m \in {markAsSynced(bucket, srcSynced, workflowId, in)},
          t \in {IF sameTest THEN WithAlert(currentTestResult) ELSE testResult} :
       \E noData \in {/\ ~m.ret.success
                      /\ m.ret.error = NoLogsError
                      /\ downloadResult.totalRecords = 0} :
       \E save \in {saveTimestampLog(bucket,
                        Summary("nodata", t, NoDataMark, NoDataClean),
                        clock, saveFails)} :
             /\ MarkCost(in) + Cost(saveFails) <= faults
             /\ saveFails => noData
             /\ currentTestResult' = WithAlert(currentTestResult)
             /\ testResult' = t
             /\ faults' = faults - MarkCost(in) - Cost(saveFails)
             /\ srcSynced' = m.synced
             /\ marked' = [j \in DOMAIN m.batches |->
                             [ids |-> m.batches[j], ok |-> j \notin in.failed]]
             /\ markCalls' = Append(markCalls, MarkCallOf(workflowId, in, m))
             /\ trace' = IF noData
                         THEN trace \o <<Event("mark", m.ret.success, m.ret.error),
                                         Event("log", ~save.threw, "")>>
                         ELSE Append(trace, Event("mark", m.ret.success, m.ret.error))
             /\ IF noData
                THEN /\ bucket' = save.bucket
                     /\ result' = IF save.threw THEN Failed("mark") ELSE Succeeded
                     /\ pc' = "exit"
                ELSE IF MarkFailed(m.ret)
                THEN /\ result' = Failed("mark")
                     /\ pc' = "exit"
                     /\ UNCHANGED bucket
                ELSE /\ pc' = "clean"
                     /\ UNCHANGED <<bucket, result>>
    /\ clock' = clock + 1
    /\ UNCHANGED <<srcIds, index, badIds, workflowId, downloadResult, syncResult,
                   sameTest, retryCount, markResult, cleanResult, exitCode,
                   confirmed, attempts, staged, cleaned, extraDocs,
                   testCalls, syncCalls, cleanCalls, other>>

\* What one call of cleanS3 did: the objects before and after (each with
\* its modification time), the delete-set, the keys a DeleteObject was sent
\* for and the keys deleted.
CleanCallOf(bkt, in, r) ==
    [env |-> in, ret |-> r.ret,
     before |-> [k \in DOMAIN bkt |-> bkt[k].lastModified],
     after |-> [k \in DOMAIN r.bucket |-> r.bucket[k].lastModified],
     filesToDelete |-> r.filesToDelete, sent |-> r.sent, deleted |-> r.deleted]

CleanInputs ==
    {in \in [list : BOOLEAN, deleteAt : 0..Cardinality(StagedKeys), put : BOOLEAN] :
        /\ Cost(in.list) + Cost(in.deleteAt > 0) + Cost(in.put) <= Min(faults, 1)}

Clean ==
    /\ pc = "clean"
    /\ \E in \in CleanInputs :
       \E r \in {cleanS3(bucket, clock, in)} :
             /\ bucket' = r.bucket
             /\ faults' = faults - Cost(in.list) - Cost(in.deleteAt > 0) - Cost(in.put)
             /\ cleanResult' = r.ret
             /\ cleaned' = [i \in DOMAIN r.deleted |->
                              [key |-> r.deleted[i], ids |-> IdsOf(bucket[r.deleted[i]].body)]]
             /\ trace' = Append(trace, Event("clean", r.ret.success, ""))
             /\ cleanCalls' = Append(cleanCalls, CleanCallOf(bucket, in, r))
             /\ IF ~r.ret.success
                THEN result' = Failed("clean") /\ pc' = "exit"
                ELSE pc' = "log" /\ UNCHANGED result
    /\ clock' = clock + 1
    /\ UNCHANGED <<srcVars, index, badIds, workflowId, downloadResult, syncResult,
                   testResult, currentTestResult, sameTest, retryCount, markResult,
                   exitCode, confirmed, attempts, marked, staged, markCalls, extraDocs,
                   testCalls, syncCalls, other>>

\* Lines 196-214: the summary and saveTimestampLog; an error it throws is
\* caught by the outer catch (line 241).
Log ==
    /\ pc = "log"
    /\ \E saveFails \in BOOLEAN :
       \E save \in {saveTimestampLog(bucket,
                        Summary("full", testResult, markResult, cleanResult),
                        clock, saveFails)} :
             /\ Cost(saveFails) <= faults
             /\ faults' = faults - Cost(saveFails)
             /\ bucket' = save.bucket
             /\ trace' = Append(trace, Event("log", ~save.threw, ""))
             /\ IF save.threw
                THEN result' = Failed("") /\ pc' = "exit"
                ELSE pc' = "final" /\ UNCHANGED result
    /\ clock' = clock + 1
    /\ UNCHANGED <<srcVars, index, badIds, workflowId, localVars, exitCode,
                   historyVars, markCalls, extraDocs, testCalls, syncCalls, cleanCalls,
                   other>>

\* Lines 216-239: the final report reads markResult.totalUpdated (line 222)
\* of the markResult declared at line 82; reading a property of undefined
\* throws a TypeError, which the outer catch turns into a failure.
Final ==
    /\ pc = "final"
    /\ result' = IF markResult.defined THEN Succeeded ELSE Failed("")
    /\ trace' = Append(trace, Event("final", markResult.defined, ""))
    /\ pc' = "exit"
    /\ UNCHANGED <<srcVars, index, badIds, bucket, clock, faults, workflowId,
                   localVars, exitCode, historyVars, markCalls, extraDocs,
                   testCalls, syncCalls, cleanCalls, other>>

\* Lines 252-267: process.exit(result.success ? 0 : 1).
Exit ==
    /\ pc = "exit"
    /\ exitCode' = IF result.success THEN 0 ELSE 1
    /\ pc' = "done"
    /\ UNCHANGED <<srcVars, index, badIds, bucket, clock, faults, workflowId,
                   localVars, result, historyVars, trace, markCalls, extraDocs,
                   testCalls, syncCalls, cleanCalls, other>>

Next ==
    \/ Download
    \/ Sync
    \/ Test
    \/ Resync
    \/ Retest
    \/ Mark
    \/ Clean
    \/ Log
    \/ Final
    \/ Exit

Spec == Init /\ [][Next]_vars


(***************************************************************************)
(* Properties of a run of orchestrate.                                     *)
(***************************************************************************)
\* The positions of the history at which a stage was executed.
Events(stage) == {i \in DOMAIN trace : trace[i].stage = stage}

Stages == {"download", "sync", "test", "mark", "clean", "log"}

\* DOWNLOAD, SYNC, TEST, MARK, CLEAN and LOG were all executed, and every
\* execution of them succeeded.
AllStagesSucceeded ==
    /\ \A st \in Stages : Events(st) # {}
    /\ \A i \in DOMAIN trace : trace[i].stage \in Stages => trace[i].ok

\* The identifiers in the checkpoint logs tagged with this run's workflow.
RunLogIds ==
    UNION {Range(bucket[k].body.syncedIds) :
             k \in {j \in DOMAIN bucket : HasPrefix(j, MarkPrefix(workflowId))}}

\* The rows whose update to opensearch_sync = true the source accepted.
MarkedIds == UNION {Range(marked[j].ids) : j \in {i \in DOMAIN marked : marked[i].ok}}

\* C1: a record is marked synced at the source only if some sync attempt of
\* the run confirmed it indexed.
C1_MarkedOnlyIfConfirmed == MarkedIds \subseteq confirmed

\* A run in which nothing failed: every stage succeeded at its first
\* execution, every blob was read and deleted when asked, and the source
\* accepted every update batch.
FullySuccessful ==
    /\ AllStagesSucceeded
    /\ Events("resync") = {}
    /\ \A i \in DOMAIN attempts : attempts[i].read /\ attempts[i].requested = attempts[i].gone
    /\ \A j \in DOMAIN marked : marked[j].ok

\* C2: after a fully successful run the identifiers of the run's checkpoint
\* logs are exactly the staged identifiers, and the source flagged exactly
\* those rows synced.
C2_LogsAndMarksAreTheStaged ==
    FullySuccessful =>
        /\ RunLogIds = staged
        /\ MarkedIds = staged
        /\ staged \subseteq srcSynced

\* C2 witness: a fully successful run whose records were staged in more
\* than one blob.
C2_Witness ==
    /\ FullySuccessful
    /\ downloadResult.fileCount > 1
    /\ Cardinality(staged) > RECORDS_PER_FILE

\* C3: a run that staged a record and whose six stages all succeeded returns
\* overall success and exits with code 0, and a run exits with code 1
\* exactly when it does not return success.
C3_SuccessfulRunExitsZero ==
    pc = "done" =>
        /\ (AllStagesSucceeded /\ staged # {}) => (result.success /\ exitCode = 0)
        /\ exitCode = 1 <=> ~result.success

\* The mark step reported "no checkpoint logs" after a download of zero
\* records.
NoNewData ==
    /\ Events("mark") # {}
    /\ \A i \in Events("mark") : trace[i].error = NoLogsError
    /\ downloadResult.totalRecords = 0

\* C4: the no-new-data case ends in overall success with a summary, and every
\* other failure of the mark step ends in a failure of step mark.
C4_NoNewDataIsSuccess ==
    (pc = "done" /\ Events("mark") # {}) =>
        /\ NoNewData => result = Succeeded
        /\ (~NoNewData /\ \E i \in Events("mark") : ~trace[i].ok) => result = Failed("mark")

\* C5: syncFile asks for the deletion of a blob exactly when it read the blob
\* and the attempt confirmed as many records as the blob holds; a blob it
\* did not ask to delete is still staged when it returns.
C5_DeletedIffAllConfirmed ==
    \A i \in DOMAIN attempts :
        /\ attempts[i].requested <=>
              (attempts[i].read /\ Cardinality(attempts[i].confirmed) = attempts[i].len)
        /\ attempts[i].gone => attempts[i].requested

\* C5 witness: an attempt that confirmed some but not all records of a blob
\* and left it staged, and an attempt that confirmed all and deleted it.
C5_Witness ==
    /\ \E i \in DOMAIN attempts :
          /\ attempts[i].confirmed # {}
          /\ Cardinality(attempts[i].confirmed) < attempts[i].len
          /\ ~attempts[i].gone
    /\ \E i \in DOMAIN attempts :
          /\ attempts[i].len > 0
          /\ Cardinality(attempts[i].confirmed) = attempts[i].len
          /\ attempts[i].gone

\* C6: no stage removes a blob that holds a record not confirmed indexed:
\* what syncFile deletes it confirmed in that attempt, and what the Janitor
\* deletes holds confirmed records only.
C6_NoUnconfirmedBlobRemoved ==
    /\ \A i \in DOMAIN attempts :
          attempts[i].gone => attempts[i].ids \subseteq attempts[i].confirmed
    /\ \A i \in DOMAIN cleaned : Range(cleaned[i].ids) \subseteq confirmed

\* The last test before position i of the history, 0 if there is none.
LastTestBefore(i) ==
    IF \E j \in Events("test") : j < i
    THEN CHOOSE j \in Events("test") : j < i /\ \A k \in Events("test") : k < i => k <= j
    ELSE 0

\* C10: a resync follows a test whose verdict, the last one known, is a
\* failure; there are at most 3 resyncs in a run; no resync follows a test
\* that passed; and a run whose test after one resync passed made exactly
\* 1 resync.
C10_ResyncOnlyAfterFailedTest ==
    /\ \A i \in Events("resync") :
          LastTestBefore(i) # 0 /\ ~trace[LastTestBefore(i)].ok
    /\ Cardinality(Events("resync")) <= 3
    /\ retryCount = Cardinality(Events("resync"))
    /\ \A j \in Events("test") :
          trace[j].ok => \A i \in Events("resync") : i < j
    /\ \A j \in Events("test") :
          (trace[j].ok /\ Cardinality({i \in Events("resync") : i < j}) = 1)
             => Cardinality(Events("resync")) = 1

\* C10 witness: the first test failed, one resync ran, the second test
\* passed and the run went on to the mark step.
C10_Witness ==
    /\ Events("mark") # {}
    /\ Cardinality(Events("test")) = 2
    /\ \E i, j \in Events("test") : i < j /\ ~trace[i].ok /\ trace[j].ok
    /\ Cardinality(Events("resync")) = 1

\* The resyncs before position i of the history.
ResyncsBefore(i) == {j \in Events("resync") : j < i}

\* A test that failed after the 3 allowed resyncs were used (a retest runs
\* only after a resync that succeeded).
ExhaustedAt(i) ==
    /\ i \in Events("test")
    /\ ~trace[i].ok
    /\ Cardinality(ResyncsBefore(i)) = 3

\* C11: a test that still fails after the 3 allowed resyncs does not fail
\* the run: nothing but the mark step follows it, whatever missing count it
\* reports, and the mark step follows a failed test in no other case.
C11_ExhaustedRetriesGoToMark ==
    /\ \A i \in DOMAIN trace :
          ExhaustedAt(i) =>
              IF i < Len(trace) THEN trace[i + 1].stage = "mark"
              ELSE pc = "loop" /\ ~result.defined
    /\ \A m \in Events("mark") :
          (m > 1 /\ ~trace[m - 1].ok) => ExhaustedAt(m - 1)

\* C11 witness: the mark step ran after a third retest that reported a
\* missing count above zero, escalated as critical.
C11_Witness ==
    \E m \in Events("mark") :
        /\ m > 1
        /\ ExhaustedAt(m - 1)
        /\ currentTestResult.missing > 0
        /\ currentTestResult.criticalMissing = currentTestResult.missing

\* C12: a failure of the download, sync or clean step is the last stage of
\* the run, and the run returns a failure naming that step; a run that
\* returned a failure of the download, sync, resync or clean step executed
\* nothing after the stage that failed.
C12_StageFailureEndsTheRun ==
    /\ \A i \in DOMAIN trace :
          (trace[i].stage \in {"download", "sync", "clean"} /\ ~trace[i].ok) =>
              /\ i = Len(trace)
              /\ pc \in {"exit", "done"}
              /\ result.defined /\ ~result.success
              /\ result.step = trace[i].stage
    /\ (result.defined /\ result.step \in {"download", "sync", "resync", "clean"}) =>
          /\ ~result.success
          /\ trace[Len(trace)].stage = result.step
          /\ ~trace[Len(trace)].ok

\* C12 witness: a run whose download, sync, test and mark steps succeeded
\* and whose clean step failed, ended with exit code 1.
C12_Witness ==
    /\ pc = "done"
    /\ exitCode = 1
    /\ result.step = "clean"
    /\ Events("mark") # {}
    /\ trace[Len(trace)].stage = "clean"
    /\ ~trace[Len(trace)].ok

\* saveTimestampLog was called and failed.
LogFailed == \E i \in Events("log") : ~trace[i].ok

\* The download, sync, test, mark and clean steps were all executed, and
\* every execution of them succeeded.
AllBeforeLogSucceeded ==
    /\ \A st \in Stages \ {"log"} : Events(st) # {}
    /\ \A i \in DOMAIN trace : trace[i].stage \in Stages \ {"log"} => trace[i].ok

\* C13: a failure to persist the run summary does not fail the run: after
\* five successful stages the run still returns overall success, and in the
\* no-new-data case it is not reported as the failure of a stage.
C13_LogIsBestEffort ==
    (pc = "done" /\ LogFailed) =>
        /\ AllBeforeLogSucceeded => (result.success /\ exitCode = 0)
        /\ NoNewData => result.step = ""

\* The run summaries this run left in the bucket.
RunSummaries == {k \in DOMAIN bucket : k.name = "sync_log_"}

\* C14: a run that ended, in success or in failure, left exactly one run
\* summary, which holds the result of the download, sync, test, mark and
\* clean steps and the duration of the run.
C14_OneCompleteSummaryPerRun ==
    pc = "done" =>
        /\ Cardinality(RunSummaries) = 1
        /\ \A k \in RunSummaries :
              /\ bucket[k].body.download.defined
              /\ bucket[k].body.sync.defined
              /\ bucket[k].body.test.defined
              /\ bucket[k].body.mark.defined
              /\ bucket[k].body.clean.defined
              /\ bucket[k].body.duration

(***************************************************************************)
(* The Commit Marker on its own (node 04_mark_synced.js, or markAsSynced   *)
(* called with a workflow id), against the checkpoint logs that earlier    *)
(* syncAll calls left in the bucket.                                       *)
(***************************************************************************)
IdRange(a, b) == [i \in 1..(b - a + 1) |-> a + i - 1]

\* The body of a checkpoint log as syncAll writes it.
CheckpointLog(w, ids) == [workflowId |-> w, totalIds |-> Len(ids), syncedIds |-> ids]

PutLog(bkt, w, t, ids) == PutObject(bkt, CheckpointKey(w, t), CheckpointLog(w, ids), t)

\* One log per workflow 1..n, workflow i having synced record i.
OneLogEach(n) ==
    [k \in {CheckpointKey(i, i) : i \in 1..n} |->
        [lastModified |-> k.ts, body |-> CheckpointLog(k.wf, <<k.ts>>)]]

LaterWorkflow == EarlierWorkflow + 1

\* The buckets the Commit Marker is run against:
\*   "none"    no checkpoint log;
\*   "small"   two logs of one workflow sharing a record, one log of a
\*             second workflow, one untagged log;
\*   "overlap" a workflow whose two syncAll calls logged more than
\*             2 * batchSize records between them, some of them twice, and
\*             a second workflow;
\*   "many"    more logs than one listing request returns.
MarkScenarios == {"none", "small", "overlap", "many"}

ScenarioBucket(sc) ==
    CASE sc = "none" -> EarlierLogs(0)
      [] sc = "small" ->
           PutLog(PutLog(PutLog(PutLog(<<>>,
               EarlierWorkflow, 1, IdRange(1, ExtraRecords)),
               EarlierWorkflow, 2, IdRange(ExtraRecords, 2 * ExtraRecords)),
               LaterWorkflow, 3, IdRange(2 * ExtraRecords, 3 * ExtraRecords)),
               NoWorkflow, 4, IdRange(3 * ExtraRecords + 1, 3 * ExtraRecords + 1))
      [] sc = "overlap" ->
           PutLog(PutLog(PutLog(<<>>,
               EarlierWorkflow, 1, IdRange(1, batchSize + ExtraRecords)),
               EarlierWorkflow, 2, IdRange(batchSize, 2 * batchSize + ExtraRecords)),
               LaterWorkflow, 3,
               IdRange(2 * batchSize + ExtraRecords, 2 * batchSize + 2 * ExtraRecords))
      [] sc = "many" -> OneLogEach(ListMaxKeys + 1)

\* The rows of the source table: every logged record and one more.
ScenarioIds(sc) ==
    CASE sc = "none" -> 1..ExtraRecords
      [] sc = "small" -> 1..(3 * ExtraRecords + 2)
      [] sc = "overlap" -> 1..(2 * batchSize + 2 * ExtraRecords + 1)
      [] sc = "many" -> 1..(ListMaxKeys + 2)

InitMark ==
    \E sc \in MarkScenarios :
        /\ srcIds = ScenarioIds(sc)
        /\ srcSynced = {}
        /\ index = {}
        /\ badIds = {}
        /\ bucket = ScenarioBucket(sc)
        /\ clock = StartTime + 1
        /\ faults = IF sc = "many" THEN 0 ELSE MaxFaults
        /\ pc = "cli"
        /\ workflowId = NoWorkflow
        /\ downloadResult = UndefinedDownload
        /\ syncResult = UndefinedSync
        /\ testResult = UndefinedTest
        /\ currentTestResult = UndefinedTest
        /\ sameTest = TRUE
        /\ retryCount = 0
        /\ markResult = UndefinedMark
        /\ cleanResult = UndefinedClean
        /\ result = UndefinedResult
        /\ exitCode = Absent
        /\ confirmed = {}
        /\ attempts = <<>>
        /\ marked = <<>>
        /\ staged = {}
        /\ cleaned = <<>>
        /\ trace = <<>>
        /\ markCalls = <<>>
        /\ extraDocs = {}
        /\ testCalls = <<>>
        /\ syncCalls = <<>>
        /\ cleanCalls = <<>>
        /\ other = NoOther

\* The workflow ids of the checkpoint logs in the bucket.
LogWorkflows == {k.wf : k \in {j \in DOMAIN bucket : j.name = "sync_log_ids_"}}

\* The argument of a call: none, or the first or the last workflow that
\* left a log.
CallWorkflows ==
    {NoWorkflow} \cup {w \in LogWorkflows : \/ \A v \in LogWorkflows : w <= v
                                            \/ \A v \in LogWorkflows : v <= w}

MarkCall ==
    /\ pc = "cli"
    /\ Len(markCalls) < MaxCalls
    /\ \E w \in CallWorkflows, in \in MarkInputs(BatchesNow) :
       \E m \in {markAsSynced(bucket, srcSynced, w, in)} :
          /\ faults' = faults - MarkCost(in)
          /\ srcSynced' = m.synced
          /\ markCalls' = Append(markCalls, MarkCallOf(w, in, m))
    /\ clock' = clock + 1
    /\ UNCHANGED <<srcIds, index, badIds, bucket, pc, workflowId, localVars, result,
                   exitCode, historyVars, trace, extraDocs,
                   testCalls, syncCalls, cleanCalls, other>>

NextMark == MarkCall

SpecMark == InitMark /\ [][NextMark]_vars


(***************************************************************************)
(* Properties of calls of markAsSynced.                                    *)
(***************************************************************************)
\* The identifiers a call put in its update batches.
BatchedIds(call) == UNION {Range(call.batches[j]) : j \in DOMAIN call.batches}

\* The identifiers of a checkpoint log.
LogIds(k) == Range(bucket[k].body.syncedIds)

\* The checkpoint logs of a workflow, all of them if none is given.
LogsOf(w) ==
    {k \in DOMAIN bucket :
        k.name = "sync_log_ids_" /\ (w = NoWorkflow \/ k.wf = w)}

C8_UpdatesExactlyTheWorkflowLogs ==
    \A c \in DOMAIN markCalls :
        markCalls[c].ret.success =>
            BatchedIds(markCalls[c]) = UNION {LogIds(k) : k \in LogsOf(markCalls[c].workflowId)}

\* A call in which the listing, every read and every update batch succeeded.
WithoutFailure(call) ==
    call.ret.success /\ call.env.failed \cap DOMAIN call.batches = {}

ReachedTheBatches(call) ==
    ~call.env.list /\ ~call.env.read /\ Len(call.logFiles) > 0

\* The identifiers of the batches of a call whose update returned no error.
UpdatedIds(call) ==
    UNION {Range(call.batches[j]) : j \in DOMAIN call.batches \ call.env.failed}

\* C27: in markAsSynced a failed update batch does not abort the run of
\* batches: the later batches are still applied, the call returns success,
\* and totalUpdated is the number of identifiers of the batches whose update
\* succeeded, at most the number of unique identifiers.
C27_FailedBatchIsSkipped ==
    \A c \in DOMAIN markCalls :
        ReachedTheBatches(markCalls[c]) =>
            /\ markCalls[c].ret.success
            /\ markCalls[c].after = markCalls[c].before \cup UpdatedIds(markCalls[c])
            /\ markCalls[c].ret.totalUpdated = Cardinality(UpdatedIds(markCalls[c]))
            /\ markCalls[c].ret.totalUpdated <= markCalls[c].ret.totalIds
            /\ markCalls[c].ret.totalIds = Cardinality(BatchedIds(markCalls[c]))

C27_Witness ==
    \E c \in DOMAIN markCalls :
        \E j, k \in DOMAIN markCalls[c].batches :
            /\ j < k
            /\ j \in markCalls[c].env.failed
            /\ k \notin markCalls[c].env.failed
            /\ Range(markCalls[c].batches[k]) \cap markCalls[c].before = {}
            /\ Range(markCalls[c].batches[k]) \subseteq markCalls[c].after
            /\ markCalls[c].ret.totalUpdated < markCalls[c].ret.totalIds

(***************************************************************************)
\* Identifiers with a second document in the Reconciler scenarios.
MaxDuplicates == 2

\* The expected and the actual counts of the scenarios.
TestCounts == {0, 50, 80, 100, 120}

\* The download summaries in the bucket: none; one; two, of which the newer
\* holds the expected count; or one more than a listing page holds, one per
\* earlier run, of which the newest holds the expected count.
ManifestScenarios == {"none", "one", "two", "many"}

\* The expected and the actual count of the scenario of many summaries.
ManyCounts == {100}

DownloadSummary(n) ==
    [totalRecords |-> n, s3Files |-> <<>>, fileCount |-> 0,
     recordsPerFile |-> RECORDS_PER_FILE]

ManifestBucket(sc, expected) ==
    CASE sc = "none" -> EarlierLogs(0)
      [] sc = "one" -> PutObject(<<>>, ManifestKey(2), DownloadSummary(expected), 2)
      [] sc = "two" ->
           PutObject(PutObject(<<>>, ManifestKey(1), DownloadSummary(expected + 1), 1),
                     ManifestKey(2), DownloadSummary(expected), 2)
      [] sc = "many" ->
           [k \in {ManifestKey(t) : t \in 1..(ListMaxKeys + 1)} |->
               [lastModified |-> k.ts,
                body |-> DownloadSummary(IF k.ts = ListMaxKeys + 1 THEN expected
                                         ELSE expected + 1)]]

\* A destination of `actual` documents, `dups` of which repeat the
\* identifier of another document.
InitTest ==
    \E expected \in TestCounts, actual \in TestCounts, sc \in ManifestScenarios :
      \E dups \in {d \in 0..MaxDuplicates : 2 * d <= actual} :
        /\ sc = "many" => (expected \in ManyCounts /\ actual \in ManyCounts /\ dups = 0)
        /\ srcIds = 1..(actual - dups)
        /\ srcSynced = 1..(actual - dups)
        /\ index = 1..(actual - dups)
        /\ extraDocs = 1..dups
        /\ badIds = {}
        /\ bucket = ManifestBucket(sc, expected)
        /\ clock = StartTime + 1
        /\ faults = MaxFaults
        /\ pc = "cli"
        /\ workflowId = NoWorkflow
        /\ downloadResult = UndefinedDownload
        /\ syncResult = UndefinedSync
        /\ testResult = UndefinedTest
        /\ currentTestResult = UndefinedTest
        /\ sameTest = TRUE
        /\ retryCount = 0
        /\ markResult = UndefinedMark
        /\ cleanResult = UndefinedClean
        /\ result = UndefinedResult
        /\ exitCode = Absent
        /\ confirmed = {}
        /\ attempts = <<>>
        /\ marked = <<>>
        /\ staged = {}
        /\ cleaned = <<>>
        /\ trace = <<>>
        /\ markCalls = <<>>
        /\ testCalls = <<>>
        /\ syncCalls = <<>>
        /\ cleanCalls = <<>>
        /\ other = NoOther

TestCall ==
    /\ pc = "cli"
    /\ Len(testCalls) < MaxCalls
    /\ \E kind \in TestKinds :
       \E t \in {testSync(CountDocs(index, extraDocs), DuplicateBuckets(index, extraDocs),
                          bucket, [kind |-> kind])} :
          /\ faults' = faults - Cost(kind # "none")
          /\ testCalls' = Append(testCalls, TestCallOf(bucket, kind, t))
    /\ clock' = clock + 1
    /\ UNCHANGED <<srcVars, index, badIds, bucket, pc, workflowId, localVars, result,
                   exitCode, historyVars, trace, markCalls, extraDocs, syncCalls,
                   cleanCalls, other>>

NextTest == TestCall

SpecTest == InitTest /\ [][NextTest]_vars

(***************************************************************************)
(* Properties of calls of testSync.                                        *)
(***************************************************************************)
\* The download summaries in the bucket.
Manifests == {k \in DOMAIN bucket : k.name = "download_summary_"}

\* The expected count: totalRecords of the download summary modified last.
Expected ==
    LET Last(sorted) == sorted[Len(sorted)]
        At(top) == bucket[CHOOSE k \in Manifests : bucket[k].lastModified = top]
    IN  At(Last(SortedSeq({bucket[k].lastModified : k \in Manifests}))).body.totalRecords

\* The number of documents in the destination.
Actual == Cardinality(index) + Cardinality(extraDocs)

\* A call that found no duplicate and read the download summary, all the
\* summaries being within one listing page (which summary is read when
\* there are more is the subject of C30).
Compared(call) ==
    /\ extraDocs = {}
    /\ Manifests # {}
    /\ Cardinality(Manifests) <= ListMaxKeys
    /\ call.env = "none"

\* C15: without duplicates and with a readable manifest, equal counts pass
\* with missing 0, fewer documents than expected fail with the difference as
\* missing, and more documents than expected pass.
C15_VerdictByCounts ==
    \A c \in DOMAIN testCalls :
        Compared(testCalls[c]) =>
            /\ Expected = Actual =>
                  (testCalls[c].ret.success /\ testCalls[c].ret.missing = 0)
            /\ Expected > Actual =>
                  (~testCalls[c].ret.success
                   /\ testCalls[c].ret.missing = Expected - Actual)
            /\ Expected < Actual => testCalls[c].ret.success

\* C15 witness: 100 records expected, 120 documents found, no duplicate, and
\* the call passed.
C15_Witness ==
    \E c \in DOMAIN testCalls :
        /\ Compared(testCalls[c])
        /\ Expected = 100
        /\ Actual = 120
        /\ testCalls[c].ret.success

\* C16: a call against a destination in which an identifier occurs more than
\* once fails, whatever the counts and whether or not the manifest can be
\* read, and a call that got the answer of the aggregation reports the
\* duplicates.
C16_DuplicateFailsTheTest ==
    \A c \in DOMAIN testCalls :
        extraDocs # {} =>
            /\ ~testCalls[c].ret.success
            /\ testCalls[c].env # "throw" =>
                  testCalls[c].ret.duplicates = Cardinality(extraDocs)

\* C16 witness: a duplicate, the expected count equal to the actual count,
\* and the call failed reporting the duplicate.
C16_Witness ==
    \E c \in DOMAIN testCalls :
        /\ extraDocs # {}
        /\ Manifests # {}
        /\ Expected = Actual
        /\ testCalls[c].env = "none"
        /\ ~testCalls[c].ret.success
        /\ testCalls[c].ret.duplicates > 0

\* C17: every call returns a result; without duplicates a call that finds no
\* download summary, or fails to list or read it, passes with the actual
\* count and neither missing nor extra; a call in which a request to the
\* index throws returns a failure carrying the error.
C17_ManifestTroubleIsAPass ==
    \A c \in DOMAIN testCalls :
        /\ testCalls[c].ret.defined
        /\ (extraDocs = {} /\ (testCalls[c].env = "manifest"
                               \/ (testCalls[c].env = "none" /\ Manifests = {}))) =>
              /\ testCalls[c].ret.success
              /\ testCalls[c].ret.totalRecords = Actual
              /\ testCalls[c].ret.missing = Absent
              /\ testCalls[c].ret.extra = Absent
        /\ testCalls[c].env = "throw" =>
              (~testCalls[c].ret.success /\ testCalls[c].ret.error # "")

\* C17 witness: fewer documents than the download summary expects, the read
\* of the summary failed, and the call passed.
C17_Witness ==
    \E c \in DOMAIN testCalls :
        /\ extraDocs = {}
        /\ Manifests # {}
        /\ Expected > Actual
        /\ testCalls[c].env = "manifest"
        /\ testCalls[c].ret.success
        /\ testCalls[c].ret.totalRecords = Actual


(***************************************************************************)
(* The Bulk Indexer on one blob (syncFile called on a staged blob), with   *)
(* records from a few hundred bytes to more than the payload ceiling.      *)
(***************************************************************************)
\* Records of a blob: one, a few, one more than the initial batch size.
BlobLengths == {1, ExtraRecords, INITIAL_BATCH_SIZE + 1}

\* Serialized size of a record: small; 19 to a payload; 2 to a payload; one
\* to a payload; larger than the ceiling.
RecordSizes ==
    {RecordBytes, CeilingBytes \div 20, CeilingBytes \div 3, CeilingBytes \div 2,
     CeilingBytes + 1}

\* A blob of n records of b bytes each.
UniformBlob(n, b) == [i \in 1..n |-> [id |-> i, bytes |-> b]]

\* A blob whose later records are larger than its first ones.
GrowingBlob ==
    [i \in 1..4 |-> [id |-> i, bytes |-> IF i <= 2 THEN CeilingBytes \div 3
                                         ELSE CeilingBytes \div 2]]

Blobs == {UniformBlob(n, b) : n \in BlobLengths, b \in RecordSizes} \cup {GrowingBlob}

InitBatch ==
    \E blob \in Blobs :
        /\ srcIds = Range(IdsOf(blob))
        /\ srcSynced = {}
        /\ index = {}
        /\ extraDocs = {}
        /\ badIds = {}
        /\ bucket = PutObject(<<>>, BlobKey(1), blob, StartTime)
        /\ clock = StartTime + 1
        /\ faults = MaxFaults
        /\ pc = "cli"
        /\ workflowId = NoWorkflow
        /\ downloadResult = UndefinedDownload
        /\ syncResult = UndefinedSync
        /\ testResult = UndefinedTest
        /\ currentTestResult = UndefinedTest
        /\ sameTest = TRUE
        /\ retryCount = 0
        /\ markResult = UndefinedMark
        /\ cleanResult = UndefinedClean
        /\ result = UndefinedResult
        /\ exitCode = Absent
        /\ confirmed = {}
        /\ attempts = <<>>
        /\ marked = <<>>
        /\ staged = Range(IdsOf(blob))
        /\ cleaned = <<>>
        /\ trace = <<>>
        /\ markCalls = <<>>
        /\ testCalls = <<>>
        /\ syncCalls = <<>>
        /\ cleanCalls = <<>>
        /\ other = NoOther

\* The bulk answers to the windows of a blob: a failure of the given kind
\* hits window `hit`; a partial failure rejects the first and the last
\* record of the blob.
RespAt(hit, kind, records) ==
    LET victims == {records[1].id, records[Len(records)].id}
    IN  [w \in 1..Len(records) |->
           [first |-> [kind   |-> IF w = hit /\ kind \in {"throwOk", "throwPartial",
                                                          "throwThrow"}
                                  THEN "throw" ELSE "ok",
                       failed |-> IF w = hit /\ kind = "partial" THEN victims ELSE {}],
            retry |-> [kind   |-> IF w = hit /\ kind = "throwThrow" THEN "throw" ELSE "ok",
                       failed |-> IF w = hit /\ kind = "throwPartial" THEN victims
                                  ELSE {}]]]

\* The windows a failure may hit: the first, the second.
HitWindows == {1, 2}

SyncFileCall ==
    /\ pc = "cli"
    /\ Len(attempts) < MaxCalls
    /\ \E key \in StagedKeys, kind \in FileKinds, hit \in HitWindows :
       \E r \in {syncFile(bucket, index, key,
                     [read |-> kind = "read", delete |-> kind = "delete",
                      resp |-> RespAt(hit, kind, bucket[key].body)])} :
          /\ Cost(kind # "none") <= faults
          /\ kind \in {"none", "read", "delete"} => hit = 1
          /\ faults' = faults - Cost(kind # "none")
          /\ bucket' = r.bucket
          /\ index' = r.index
          /\ confirmed' = confirmed \cup r.confirmed
          /\ attempts' = Append(attempts, r.attempt)
    /\ clock' = clock + 1
    /\ UNCHANGED <<srcVars, badIds, pc, workflowId, localVars, result, exitCode,
                   marked, staged, cleaned, trace, markCalls, extraDocs,
                   testCalls, syncCalls, cleanCalls, other>>

NextBatch == SyncFileCall

SpecBatch == InitBatch /\ [][NextBatch]_vars

(***************************************************************************)
(* Properties of the batches of dynamicMicroBatch.                         *)
(***************************************************************************)
\* The largest batch size the probing tries.
MaxTestSize(a) == Min(INITIAL_BATCH_SIZE, a.len)

\* C18, as stated: for a blob of records of one size, the payload of the
\* selected number of records is at or under the ceiling, and that of one
\* record more is over it.
C18_SelectedSizeIsTheLargestThatFits ==
    \A i \in DOMAIN attempts :
        (attempts[i].read /\ attempts[i].uniform) =>
            /\ attempts[i].sizeBytes <= CeilingBytes
            /\ attempts[i].nextBytes > CeilingBytes

\* C18, amended: the selected size is between 1 and the smaller of 25 and the
\* number of records; the payload of that many records is at or under the
\* ceiling unless the first record alone is over it, in which case the size
\* is 1; and the payload of one record more is over the ceiling whenever the
\* size is below that maximum.
C18_SelectedSizeIsTheLargestThatFitsUpToTheMaximum ==
    \A i \in DOMAIN attempts :
        (attempts[i].read /\ attempts[i].uniform) =>
            /\ 1 <= attempts[i].size
            /\ attempts[i].size <= MaxTestSize(attempts[i])
            /\ attempts[i].sizeBytes > CeilingBytes => attempts[i].size = 1
            /\ attempts[i].size < MaxTestSize(attempts[i]) =>
                  attempts[i].nextBytes > CeilingBytes

\* C18 witness: a blob of records of one size of which more than one and
\* fewer than 25 fit under the ceiling, and the size selected is that number.
C18_Witness ==
    \E i \in DOMAIN attempts :
        /\ attempts[i].read /\ attempts[i].uniform
        /\ 1 < attempts[i].size
        /\ attempts[i].size < MaxTestSize(attempts[i])
        /\ attempts[i].sizeBytes <= CeilingBytes
        /\ attempts[i].nextBytes > CeilingBytes

\* C19: the payload of every bulk request, first or retry, of every window
\* of every blob is at or under the ceiling of 2 MB.
C19_EveryRequestUnderTheCeiling ==
    \A i \in DOMAIN attempts :
        \A j \in DOMAIN attempts[i].requests :
            attempts[i].requests[j].bytes <= 2 * 1024 * 1024

\* The number of windows of an attempt.
Windows(a) == (a.len + a.size - 1) \div a.size

\* C20: the requests of an attempt go through the windows in order, from
\* the first to the last; a window gets one request, and a second one
\* exactly when the first threw, for the same records; a window whose
\* response reports failed items gets no second request.
C20_OneRetryPerThrownWindow ==
    \A i \in DOMAIN attempts :
        attempts[i].read =>
            LET Ordered(rs) ==
                    /\ Len(rs) >= 1
                    /\ rs[1].window = 1 /\ rs[1].attempt = 1
                    /\ rs[Len(rs)].window = Windows(attempts[i])
                    /\ rs[Len(rs)].attempt = 1 => rs[Len(rs)].answer # "throw"
                    /\ \A j \in 1..(Len(rs) - 1) :
                          IF rs[j].attempt = 1 /\ rs[j].answer = "throw"
                          THEN /\ rs[j + 1].window = rs[j].window
                               /\ rs[j + 1].attempt = 2
                               /\ rs[j + 1].ids = rs[j].ids
                          ELSE /\ rs[j + 1].window = rs[j].window + 1
                               /\ rs[j + 1].attempt = 1
            IN  Ordered(attempts[i].requests)

\* C20 witness: a blob of several windows synced twice; in one call a first
\* request threw, was retried once, and the next window followed; in the
\* other a response reported failed items and the next window followed.
C20_Witness ==
    /\ \E i \in DOMAIN attempts :
          \E j \in DOMAIN attempts[i].requests :
              /\ attempts[i].requests[j].attempt = 2
              /\ j < Len(attempts[i].requests)
    /\ \E i \in DOMAIN attempts :
          \E j \in DOMAIN attempts[i].requests :
              /\ attempts[i].requests[j].errors
              /\ attempts[i].requests[j].attempt = 1
              /\ j < Len(attempts[i].requests)
              /\ attempts[i].requests[j + 1].window = attempts[i].requests[j].window + 1

\* The record counts of the blobs named by keys, added up.
RECURSIVE SumRecords(_, _)
SumRecords(keys, i) ==
    IF i > Len(keys) THEN 0 ELSE Len(bucket[keys[i]].body) + SumRecords(keys, i + 1)

\* The state right after downloadToS3 returned or threw.
AfterDownload == Len(trace) = 1 /\ trace[1].stage = "download"

NewManifests == {k \in DOMAIN bucket : k.name = "download_summary_" /\ k.ts >= StartTime}

\* C24: downloadToS3 writes a manifest only after the terminating empty
\* page: its total record count is the sum of the record counts of the
\* blobs written in the run and its blob list names exactly those blobs in
\* order; when a query or a blob write fails no manifest is written and the
\* error reaches the caller; the source is not mutated in either case.
C24_ManifestMatchesTheBlobsWritten ==
    AfterDownload =>
        /\ srcSynced = index
        /\ trace[1].ok =>
              /\ NewManifests = {ManifestKey(StartTime + 1)}
              /\ \E b \in {bucket[ManifestKey(StartTime + 1)].body} :
                    /\ b.s3Files = KeySeq(StagedKeys)
                    /\ b.totalRecords = SumRecords(b.s3Files, 1)
                    /\ b.totalRecords = Cardinality(srcIds \ srcSynced)
        /\ ~trace[1].ok =>
              /\ NewManifests = {}
              /\ result.defined /\ ~result.success /\ result.step = "download"

C24_Witness ==
    /\ AfterDownload
    /\ trace[1].ok
    /\ Cardinality(StagedKeys) = 2
    /\ \E k \in StagedKeys : Len(bucket[k].body) < RECORDS_PER_FILE

\* The place of a stage in the order DOWNLOAD, SYNC, TEST / RESYNC, MARK,
\* CLEAN, LOG.
Rank(stage) ==
    CASE stage = "download" -> 1
      [] stage = "sync"     -> 2
      [] stage = "test"     -> 3
      [] stage = "resync"   -> 3
      [] stage = "mark"     -> 4
      [] stage = "clean"    -> 5
      [] stage = "log"      -> 6
      [] OTHER              -> 7

\* C25, as stated: the stages of a run execute strictly in the order
\* DOWNLOAD, SYNC, TEST, (RESYNC, TEST)*, MARK, CLEAN, LOG: no stage runs
\* before an earlier one, every RESYNC is followed by a TEST, and a TEST by
\* a RESYNC or by MARK.
C25_StagesInTheStatedOrder ==
    \A i \in 1..(Len(trace) - 1) :
        /\ Rank(trace[i].stage) <= Rank(trace[i + 1].stage)
        /\ trace[i].stage = "resync" => trace[i + 1].stage = "test"
        /\ trace[i].stage = "test" => trace[i + 1].stage \in {"resync", "mark"}

\* The stage that follows event a in the code of orchestrate.
Follows(a, stage) ==
    CASE a.stage = "download" -> a.ok /\ stage = "sync"
      [] a.stage = "sync"     -> a.ok /\ stage = "test"
      [] a.stage = "test"     -> stage \in {"resync", "mark"}
      [] a.stage = "resync"   -> stage = (IF a.ok THEN "test" ELSE "resync")
      [] a.stage = "mark"     -> stage = (IF a.ok THEN "clean" ELSE "log")
      [] a.stage = "clean"    -> a.ok /\ stage = "log"
      [] a.stage = "log"      -> a.ok /\ stage = "final"
      [] OTHER                -> FALSE

\* C25, amended: the stages of a run execute one after the other in the
\* order DOWNLOAD, SYNC, TEST, (RESYNC.., TEST)*, MARK, CLEAN, LOG, where a
\* failed RESYNC is followed by the next RESYNC and a failed MARK only by
\* LOG; MARK starts after SYNC succeeded and a TEST completed, CLEAN after
\* MARK succeeded, and the Janitor deletes no blob before MARK has run.
C25_StagesInTheOrderOfTheCode ==
    /\ trace # <<>> => trace[1].stage = "download"
    /\ \A i \in 1..(Len(trace) - 1) : Follows(trace[i], trace[i + 1].stage)
    /\ \A i \in Events("mark") :
          /\ \E j \in Events("sync") : j < i /\ trace[j].ok
          /\ \E j \in Events("test") : j < i
    /\ \A i \in Events("clean") : \E j \in Events("mark") : j < i /\ trace[j].ok
    /\ \A i \in Events("log") :
          \A j \in Events("mark") : ~trace[j].ok => Events("clean") = {}
    /\ cleaned # <<>> => \E j \in Events("mark") : trace[j].ok
    /\ \A i \in DOMAIN cleanCalls : Events("mark") # {}

C25_Witness ==
    /\ \E i \in Events("resync") : ~trace[i].ok
    /\ \E i \in Events("resync") : trace[i].ok
    /\ \E i \in Events("clean") : trace[i].ok
    /\ Events("log") # {}
    /\ cleaned # <<>>

\* C26: a RESYNC failure on the third attempt ends the run in
\* FAILED(step=resync); a RESYNC failure on the first or second attempt
\* does not end the run, consumes one attempt, and the loop goes on with
\* the next RESYNC without a TEST on the failed attempt.
C26_OnlyTheThirdResyncFailureEndsTheRun ==
    \A i \in Events("resync") :
        ~trace[i].ok =>
            IF Cardinality(ResyncsBefore(i)) = MAX_RETRIES - 1
            THEN /\ i = Len(trace)
                 /\ result.defined /\ ~result.success /\ result.step = "resync"
            ELSE /\ i = Len(trace) => (pc = "loop" /\ ~result.defined
                                        /\ retryCount = Cardinality(ResyncsBefore(i)) + 1)
                 /\ i < Len(trace) => trace[i + 1].stage = "resync"

C26_Witness ==
    /\ \E i \in Events("resync") : ~trace[i].ok /\ Cardinality(ResyncsBefore(i)) = 0
    /\ \E i \in Events("resync") :
          /\ ~trace[i].ok
          /\ Cardinality(ResyncsBefore(i)) = MAX_RETRIES - 1
          /\ i = Len(trace)

\* The items with a 2xx status in the responses among the requests from the
\* i-th on.  A request that threw has no response; a window has at most one
\* response, that of its first request or else that of its retry.
RECURSIVE SuccessItems(_, _)
SuccessItems(requests, i) ==
    IF i > Len(requests) THEN 0
    ELSE (IF requests[i].answer = "throw" THEN 0
          ELSE Len(requests[i].ids) - Cardinality(requests[i].failed))
         + SuccessItems(requests, i + 1)

\* C28: for each blob the count dynamicMicroBatch returns is the number of
\* records whose bulk item had a 2xx status in the response that settled
\* their window (the first response, or the retry response when the first
\* request threw); a window whose request and retry both threw adds
\* nothing; the count never exceeds the record count of the blob.
C28_CountIsTheSuccessItems ==
    \A i \in DOMAIN attempts :
        attempts[i].read =>
            /\ attempts[i].count = SuccessItems(attempts[i].requests, 1)
            /\ attempts[i].count = Cardinality(attempts[i].confirmed)
            /\ attempts[i].count <= attempts[i].len
            /\ \A w \in 1..Windows(attempts[i]) :
                  (\A j \in DOMAIN attempts[i].requests :
                      attempts[i].requests[j].window = w
                        => attempts[i].requests[j].answer = "throw")
                    => \A j \in DOMAIN attempts[i].requests :
                          attempts[i].requests[j].window = w
                            => Range(attempts[i].requests[j].ids)
                                 \cap attempts[i].confirmed = {}

C28_Witness ==
    \E i \in DOMAIN attempts :
        \E j \in DOMAIN attempts[i].requests :
            /\ attempts[i].requests[j].attempt = 2
            /\ attempts[i].requests[j].answer # "throw"
            /\ attempts[i].requests[j].failed # {}
            /\ Len(attempts[i].requests) > 2
            /\ 0 < attempts[i].count
            /\ attempts[i].count < attempts[i].len

\* The attempts of a call of syncAll that read their blob.
ReadBy(call) == {i \in call.first..call.last : attempts[i].read}

\* C29: a call of syncAll that read at least one blob writes exactly one
\* new checkpoint log, tagged with the workflow identifier and holding the
\* identifiers of all records of the blobs it read; no existing checkpoint
\* log is overwritten or deleted; a call that attempted no identifier
\* writes none; a blob whose read fails contributes no identifier and does
\* not stop the remaining blobs.
C29_OneCheckpointLogPerCall ==
    \A c \in DOMAIN syncCalls :
        LET call == syncCalls[c]
        IN  /\ \A k \in DOMAIN call.before :
                  k \in DOMAIN call.after /\ call.after[k] = call.before[k]
            /\ ReadBy(call) # {} =>
                  /\ Cardinality(DOMAIN call.written) = 1
                  /\ \A k \in DOMAIN call.written :
                        /\ k.wf = call.workflowId
                        /\ call.written[k] = UNION {attempts[i].ids : i \in ReadBy(call)}
            /\ ReadBy(call) = {} => DOMAIN call.written = {}
            /\ ~call.env.l => call.last - call.first + 1 = call.ret.totalFiles

\* The blob of a call was read and every record of it indexed, and the call
\* wrote no checkpoint log although it returned success.
C29_IndexedButNotLogged ==
    \E c \in DOMAIN syncCalls :
        /\ syncCalls[c].ret.success
        /\ ~syncCalls[c].env.p
        /\ ReadBy(syncCalls[c]) # {}
        /\ \A i \in ReadBy(syncCalls[c]) : attempts[i].confirmed = attempts[i].ids
        /\ DOMAIN syncCalls[c].written = {}

\* C30: the expected count testSync compares against is that of the
\* manifest modified last among all manifests under log/, however many
\* there are: a call that found no duplicate and read a manifest passes
\* exactly when the destination holds at least that many documents, and
\* otherwise reports the difference as missing.
C30_ExpectedIsTheNewestManifest ==
    \A c \in DOMAIN testCalls :
        (extraDocs = {} /\ Manifests # {} /\ testCalls[c].env = "none") =>
            /\ testCalls[c].ret.success <=> Expected <= Actual
            /\ Expected > Actual => testCalls[c].ret.missing = Expected - Actual

\* The run reached MARK with the last TEST failing and reporting missing
\* records.
MarkedWithMissing ==
    /\ Events("mark") # {}
    /\ ~currentTestResult.success
    /\ currentTestResult.missing # Absent
    /\ currentTestResult.missing > 0

\* C31: when a run reaches MARK with the last TEST still failing and
\* reporting a missing count above zero, the test result recorded in the
\* run summary is the result of the last TEST and carries the missing count
\* as criticalMissing.
C31_SummaryCarriesTheAlert ==
    MarkedWithMissing =>
        \A k \in RunSummaries :
            /\ bucket[k].body.test.criticalMissing = currentTestResult.missing
            /\ bucket[k].body.test = currentTestResult

\* A run summary was written after three retests, the last of which failed
\* with missing records, and the test it records carries no alert.
C31_SummaryWithoutTheAlert ==
    /\ MarkedWithMissing
    /\ Cardinality(Events("test")) = MAX_RETRIES + 1
    /\ currentTestResult.criticalMissing = currentTestResult.missing
    /\ \E k \in RunSummaries : bucket[k].body.test.criticalMissing = Absent

(***************************************************************************)
(* The Janitor alone: cleanS3 (06_orchestrate.js, lines 283-372) called on *)
(* buckets that hold staged blobs and logs of every kind.                  *)
(***************************************************************************)
\* Staged blobs in the bucket of the Janitor scenarios.
MaxBlobs == 3

\* The kinds of log an earlier run leaves under the log namespace.
LogKinds == {"manifest", "checkpoint", "summary", "cleanup"}

LogKeyOf(kind, t) ==
    CASE kind = "manifest"   -> ManifestKey(t)
      [] kind = "checkpoint" -> CheckpointKey(EarlierWorkflow, t)
      [] kind = "summary"    -> RunLogKey(t)
      [] kind = "cleanup"    -> CleanupKey(t)

\* n staged blobs of one record each and one log of every kind in kinds,
\* all written before StartTime.
JanitorBucket(n, kinds) ==
    [k \in {BlobKey(i) : i \in 1..n} \cup {LogKeyOf(kind, 2) : kind \in kinds} |->
        IF k.name = "unsynced_"
        THEN [lastModified |-> 1, body |-> <<RecordOf(k.seq)>>]
        ELSE [lastModified |-> 2, body |-> <<>>]]

InitClean ==
    \E n \in 0..MaxBlobs, kinds \in SUBSET LogKinds :
        /\ srcIds = 1..n
        /\ srcSynced = {}
        /\ index = {}
        /\ extraDocs = {}
        /\ badIds = {}
        /\ bucket = JanitorBucket(n, kinds)
        /\ clock = StartTime + 1
        /\ faults = MaxFaults
        /\ pc = "clean"
        /\ workflowId = NoWorkflow
        /\ downloadResult = UndefinedDownload
        /\ syncResult = UndefinedSync
        /\ testResult = UndefinedTest
        /\ currentTestResult = UndefinedTest
        /\ sameTest = TRUE
        /\ retryCount = 0
        /\ markResult = UndefinedMark
        /\ cleanResult = UndefinedClean
        /\ result = UndefinedResult
        /\ exitCode = Absent
        /\ confirmed = {}
        /\ attempts = <<>>
        /\ marked = <<>>
        /\ staged = {}
        /\ cleaned = <<>>
        /\ trace = <<>>
        /\ markCalls = <<>>
        /\ testCalls = <<>>
        /\ syncCalls = <<>>
        /\ cleanCalls = <<>>
        /\ other = NoOther

\* One call of cleanS3; the next call sees what this one left.
CleanCall ==
    /\ pc = "clean"
    /\ Len(cleanCalls) < MaxCalls
    /\ \E in \in CleanInputs :
       \E r \in {cleanS3(bucket, clock, in)} :
          /\ bucket' = r.bucket
          /\ faults' = faults - Cost(in.list) - Cost(in.deleteAt > 0) - Cost(in.put)
          /\ cleanResult' = r.ret
          /\ cleanCalls' = Append(cleanCalls, CleanCallOf(bucket, in, r))
    /\ clock' = clock + 1
    /\ UNCHANGED <<srcVars, index, badIds, pc, workflowId, downloadResult, syncResult,
                   testResult, currentTestResult, sameTest, retryCount, markResult,
                   result, exitCode, historyVars, trace, markCalls, extraDocs,
                   testCalls, syncCalls, other>>

NextClean == CleanCall

SpecClean == InitClean /\ [][NextClean]_vars

\* The delete-set of a call: the objects whose key neither names a summary
\* nor lies under log/.
DeleteSet(call) ==
    {k \in DOMAIN call.before : k.ns # "log/" /\ k.name # "download_summary_"}

\* C21: in cleanS3 a deletion failure for one object does not prevent the
\* deletion attempts on the remaining objects of the delete-set: when the
\* listing succeeded, a DeleteObject is sent for every object of the
\* delete-set and the call reports success.
C21_EveryObjectOfTheDeleteSetIsAttempted ==
    \A i \in DOMAIN cleanCalls :
        ~cleanCalls[i].env.list =>
            /\ DeleteSet(cleanCalls[i]) \subseteq Range(cleanCalls[i].sent)
            /\ cleanCalls[i].ret.success

\* C22: cleanS3 deletes only objects whose key neither names a summary nor
\* lies under log/: every manifest, checkpoint log, run summary and cleanup
\* record present before the call is still there, unmodified, after it,
\* and after a successful call no staged blob remains.
C22_LogsSurviveAndBlobsAreGone ==
    \A i \in DOMAIN cleanCalls :
        LET call == cleanCalls[i]
        IN  /\ \A k \in Range(call.deleted) : k.name = "unsynced_"
            /\ \A k \in DOMAIN call.before :
                  k.name \in {"download_summary_", "sync_log_ids_", "sync_log_",
                              "cleanup_log_"}
                    => k \in DOMAIN call.after /\ call.after[k] = call.before[k]
            /\ call.ret.success =>
                  \A k \in DOMAIN call.after : k.name # "unsynced_"

C22_Witness ==
    \E i \in DOMAIN cleanCalls :
        /\ cleanCalls[i].ret.success
        /\ Len(cleanCalls[i].deleted) >= 2
        /\ {k.name : k \in DOMAIN cleanCalls[i].before} = Range(KeyNames)

(***************************************************************************)
(* Successive runs.  The container is a cron job (README.md, lines 29-35): *)
(* after the process exited, the schedule starts orchestrate again on the  *)
(* bucket, the index and the source the earlier run left.                  *)
(***************************************************************************)
\* Runs of one behaviour.
MaxRuns == 2

\* Collaborator failures a later run may meet.
RerunFaults == 0

\* The first run finds two pages of unsynced records and an empty bucket.
InitRuns ==
    /\ Init
    /\ srcSynced = {}
    /\ badIds = {}
    /\ Cardinality(srcIds) > RECORDS_PER_FILE

\* The next scheduled start: a fresh process, hence fresh locals and a new
\* workflow identifier (06_orchestrate.js, lines 44-47).
Rerun ==
    /\ pc = "done"
    /\ Cardinality(Events("download")) < MaxRuns
    /\ pc' = "download"
    /\ workflowId' = clock
    /\ clock' = clock + 1
    /\ faults' = RerunFaults
    /\ downloadResult' = UndefinedDownload
    /\ syncResult' = UndefinedSync
    /\ testResult' = UndefinedTest
    /\ currentTestResult' = UndefinedTest
    /\ sameTest' = TRUE
    /\ retryCount' = 0
    /\ markResult' = UndefinedMark
    /\ cleanResult' = UndefinedClean
    /\ result' = UndefinedResult
    /\ exitCode' = Absent
    /\ UNCHANGED <<srcVars, index, badIds, bucket, historyVars, trace, markCalls,
                   extraDocs, testCalls, syncCalls, cleanCalls, other>>

NextRuns == Next \/ Rerun

SpecRuns == InitRuns /\ [][NextRuns]_vars

\* The identifiers of the records a staged blob holds.
BlobIds(k) == Range(IdsOf(bucket[k].body))

\* C23: a record identifier appears in at most one staged blob, within one
\* run and across successive runs that leave blobs behind.
C23_NoIdentifierInTwoBlobs ==
    \A k1 \in StagedKeys, k2 \in StagedKeys :
        k1 # k2 => BlobIds(k1) \cap BlobIds(k2) = {}

(***************************************************************************)
(* Two runs overlapping on one bucket, one index and one source.  Nothing  *)
(* in orchestrate (06_orchestrate.js, lines 44-52) takes a lock or looks   *)
(* for a run in progress; each run is a process of its own, whose code     *)
(* between two awaited calls is one step, so the runs interleave stage by  *)
(* stage.  The running process has the locals; those of the other are in   *)
(* `other`.                                                                *)
(***************************************************************************)
\* Times the stages executed pass from one run to the other.
MaxSwitches == 2

\* The places of the history where a stage of one run is followed by a stage
\* of the other.
Switches == {i \in 1..(Len(trace) - 1) : trace[i].wf # trace[i + 1].wf}

Locals ==
    [pc |-> pc, workflowId |-> workflowId, downloadResult |-> downloadResult,
     syncResult |-> syncResult, testResult |-> testResult,
     currentTestResult |-> currentTestResult, sameTest |-> sameTest,
     retryCount |-> retryCount, markResult |-> markResult,
     cleanResult |-> cleanResult, result |-> result, exitCode |-> exitCode]

\* One run is about to start on a page of unsynced records, one of which
\* the index may reject; the second run has not started.  No collaborator
\* call fails.
InitOverlap ==
    \E bad \in {{}, {1}} :
        /\ srcIds = 1..ExtraRecords
        /\ srcSynced = {}
        /\ index = {}
        /\ extraDocs = {}
        /\ badIds = bad
        /\ bucket = <<>>
        /\ clock = StartTime + 1
        /\ faults = 0
        /\ pc = "download"
        /\ workflowId = StartTime
        /\ downloadResult = UndefinedDownload
        /\ syncResult = UndefinedSync
        /\ testResult = UndefinedTest
        /\ currentTestResult = UndefinedTest
        /\ sameTest = TRUE
        /\ retryCount = 0
        /\ markResult = UndefinedMark
        /\ cleanResult = UndefinedClean
        /\ result = UndefinedResult
        /\ exitCode = Absent
        /\ confirmed = {}
        /\ attempts = <<>>
        /\ marked = <<>>
        /\ staged = {}
        /\ cleaned = <<>>
        /\ trace = <<>>
        /\ markCalls = <<>>
        /\ testCalls = <<>>
        /\ syncCalls = <<>>
        /\ cleanCalls = <<>>
        /\ other = NoOther

\* The second run starts: const workflowId = Date.now().toString(36).
Start ==
    /\ pc = "idle"
    /\ pc' = "download"
    /\ workflowId' = clock
    /\ clock' = clock + 1
    /\ UNCHANGED <<srcVars, index, badIds, bucket, faults, localVars, result, exitCode,
                   historyVars, trace, markCalls, extraDocs, testCalls, syncCalls,
                   cleanCalls, other>>

\* The scheduler lets the other process run its next step.
Switch ==
    /\ other.pc # "done"
    /\ Cardinality(Switches) < MaxSwitches
    /\ other' = Locals
    /\ pc' = other.pc
    /\ workflowId' = other.workflowId
    /\ downloadResult' = other.downloadResult
    /\ syncResult' = other.syncResult
    /\ testResult' = other.testResult
    /\ currentTestResult' = other.currentTestResult
    /\ sameTest' = other.sameTest
    /\ retryCount' = other.retryCount
    /\ markResult' = other.markResult
    /\ cleanResult' = other.cleanResult
    /\ result' = other.result
    /\ exitCode' = other.exitCode
    /\ UNCHANGED <<srcVars, index, badIds, bucket, clock, faults, historyVars, trace,
                   markCalls, extraDocs, testCalls, syncCalls, cleanCalls>>

NextOverlap == Next \/ Start \/ Switch

SpecOverlap == InitOverlap /\ [][NextOverlap]_vars

\* C32: runs are not kept from overlapping, and the Reconciler of a run may
\* take the manifest another run wrote as its baseline (the witness), but
\* the Commit Marker of a run reads only checkpoint logs tagged with the
\* workflow identifier of that run, and updates only identifiers they hold.
C32_MarkReadsOnlyItsOwnLogs ==
    \A c \in DOMAIN markCalls :
        /\ \A k \in Range(markCalls[c].logFiles) :
              k.name = "sync_log_ids_" /\ k.wf = markCalls[c].workflowId
        /\ BatchedIds(markCalls[c]) \subseteq
              UNION {LogIds(k) : k \in {j \in DOMAIN bucket :
                                          /\ j.name = "sync_log_ids_"
                                          /\ j.wf = markCalls[c].workflowId}}

\* C32 witness: a TEST of one run took the manifest that the DOWNLOAD of the
\* other run wrote, and a MARK that found its checkpoint log ran when a
\* checkpoint log of the other run was in the bucket.
C32_Witness ==
    /\ \E c \in DOMAIN testCalls, i \in Events("download") :
          /\ trace[i].ok
          /\ trace[i].wf # testCalls[c].workflowId
          /\ testCalls[c].manifest = {ManifestKey(trace[i].at)}
    /\ \E i \in Events("mark"), k \in DOMAIN bucket :
          /\ trace[i].ok
          /\ k.name = "sync_log_ids_"
          /\ k.wf # trace[i].wf
          /\ k.ts < trace[i].at

(***************************************************************************)
(* The Staging Writer alone: downloadToS3 (01_download.js, lines 40-124)   *)
(* on sources of no, one, exactly one page, one page and one, and more     *)
(* than two pages of unsynced records, with consecutive identifiers or     *)
(* with gaps, some rows already synced.  The loop of the function is       *)
(* DownloadLoop, whose recursion follows the cursor; the call returns or   *)
(* throws in one step of the caller.                                       *)
(***************************************************************************)
DownloadCounts ==
    {0, 1, RECORDS_PER_FILE, RECORDS_PER_FILE + 1, 2 * RECORDS_PER_FILE,
     2 * RECORDS_PER_FILE + ExtraRecords}

\* The distance between two consecutive identifiers of the source.
MaxStride == 2

InitDownload ==
    \E n \in DownloadCounts, stride \in 1..MaxStride, pre \in {0, PreIndexed} :
        /\ srcIds = {stride * i : i \in 1..(pre + n)}
        /\ srcSynced = {stride * i : i \in 1..pre}
        /\ index = {stride * i : i \in 1..pre}
        /\ extraDocs = {}
        /\ badIds = {}
        /\ bucket = EarlierLogs(pre)
        /\ clock = StartTime + 1
        /\ faults = MaxFaults
        /\ pc = "download"
        /\ workflowId = StartTime
        /\ downloadResult = UndefinedDownload
        /\ syncResult = UndefinedSync
        /\ testResult = UndefinedTest
        /\ currentTestResult = UndefinedTest
        /\ sameTest = TRUE
        /\ retryCount = 0
        /\ markResult = UndefinedMark
        /\ cleanResult = UndefinedClean
        /\ result = UndefinedResult
        /\ exitCode = Absent
        /\ confirmed = {}
        /\ attempts = <<>>
        /\ marked = <<>>
        /\ staged = {}
        /\ cleaned = <<>>
        /\ trace = <<>>
        /\ markCalls = <<>>
        /\ testCalls = <<>>
        /\ syncCalls = <<>>
        /\ cleanCalls = <<>>
        /\ other = NoOther

NextDownload == Download

SpecDownload == InitDownload /\ [][NextDownload]_vars

\* The unsynced identifiers in ascending order, and the staged blobs in key
\* order.
UnsyncedSorted == SortedSeq(srcIds \ srcSynced)

StagedBlobs == KeySeq(StagedKeys)

PagesOf(n) == (n + 99) \div 100

\* C33: over a finite source downloadToS3 terminates: the call ends after a
\* query for every page and one more.  The i-th blob holds the i-th hundred
\* of the unsynced identifiers in ascending order, so the cursor rises with
\* every page and a page has at most 100 records; a call that threw left
\* the blobs of the pages before the failure, each page being written
\* before the next query; a call that returned wrote a blob for every
\* page and stopped at the first page without rows.
C33_PagesBecomeBlobsAndTheLoopStops ==
    AfterDownload =>
        /\ \A i \in DOMAIN StagedBlobs :
              /\ StagedBlobs[i] = BlobKey(i)
              /\ bucket[BlobKey(i)].lastModified = trace[1].at
              /\ Len(bucket[BlobKey(i)].body) \in 1..100
              /\ IdsOf(bucket[BlobKey(i)].body)
                    = SubSeq(UnsyncedSorted, 100 * (i - 1) + 1,
                             Min(100 * i, Len(UnsyncedSorted)))
              /\ i > 1 => bucket[BlobKey(i)].body[1].id
                            > bucket[BlobKey(i - 1)].body[100].id
        /\ Len(StagedBlobs) <= PagesOf(Len(UnsyncedSorted))
        /\ trace[1].ok =>
              /\ Len(StagedBlobs) = PagesOf(Len(UnsyncedSorted))
              /\ downloadResult.fileCount = Len(StagedBlobs)
              /\ downloadResult.totalRecords = Len(UnsyncedSorted)
              /\ downloadResult.files = StagedBlobs

C33_Witness ==
    /\ AfterDownload
    /\ trace[1].ok
    /\ Len(StagedBlobs) = 3
    /\ Len(bucket[BlobKey(3)].body) = ExtraRecords
    /\ bucket[BlobKey(1)].body[2].id > bucket[BlobKey(1)].body[1].id + 1
    /\ srcSynced # {}

=============================================================================
